---------------------------- MODULE Spec2Model ----------------------------
(***************************************************************************)
(* A model of the content-safety pipeline of the repository: the JSON      *)
(* chunker (chunker.js), the GitGuardian wrapper (gitguardian-wrapper.js:  *)
(* buildDocuments, gitguardianMultiscan, redactSensitiveContent, scan),    *)
(* the gateway handler (securellmgateway/index.js) and the fetch-file tool *)
(* of the MCP server.                                                      *)
(*                                                                         *)
(* Conventions.                                                            *)
(*  - All text is ASCII, so one character is one UTF-8 byte and one UTF-16 *)
(*    code unit: Buffer.byteLength and String.length agree.                *)
(*  - A JSON text is [root, items, pad]: the kind of its root, the direct  *)
(*    children of the root in text order and the number of insignificant   *)
(*    whitespace bytes in it. A child is [key, id, size]: the key of an    *)
(*    object entry ("" for an array element), the identity of the value    *)
(*    and the byte length of JSON.stringify(value).                        *)
(*  - Object keys are non-numeric strings, so Object.entries lists them in *)
(*    insertion order.                                                     *)
(***************************************************************************)
EXTENDS Integers, Sequences, FiniteSets, TLC

(***************************************************************************)
(* Bounds of the model.                                                    *)
(***************************************************************************)
\* largest number of direct children of a chunked JSON root
MaxChildren == 3
\* largest length of a content handed to redactSensitiveContent; the offsets
\* of a match are below it
MaxLen == 3
\* largest number of policy breaks of a scan result
MaxBreaks == 2
\* largest number of documents the detector reports policy breaks for, and
\* of elements of the shorter oversized arrays handed to scan
MaxItems == 3
\* how far the longer oversized arrays handed to scan go beyond MAX_DOCS
MaxOver == 1
\* largest number of messages of a gateway request
MaxMsgs == 2
\* number of calls of scan that run at the same time
MaxInvocations == 2

Min(a, b) == IF a < b THEN a ELSE b
Max(a, b) == IF a > b THEN a ELSE b

(***************************************************************************)
(* chunker.js                                                              *)
(***************************************************************************)
MAX_CHUNK_SIZE == 1024 * 1024

\* The keys an object root may use. All have nine characters; one holds a
\* double quote, which JSON.stringify escapes, and one is __proto__.
PlainKey == "key_plain"
OtherKey == "key_other"
QuoteKey == "key\"quote"
ProtoKey == "__proto__"
Keys == {PlainKey, OtherKey, QuoteKey, ProtoKey}

\* String.length of a key, as the template literal `"${key}":...` writes it
KeyRawLen(k) == 9

\* byte length of JSON.stringify(key): two quotes, and one backslash before
\* the double quote of QuoteKey
KeyJsonLen(k) == IF k = QuoteKey THEN KeyRawLen(k) + 3 ELSE KeyRawLen(k) + 2

RECURSIVE SumSizes(_)
SumSizes(items) ==
    IF items = <<>> THEN 0
    ELSE Head(items).size + SumSizes(Tail(items))

RECURSIVE SumKeys(_)
SumKeys(items) ==
    IF items = <<>> THEN 0
    ELSE KeyJsonLen(Head(items).key) + 1 + SumKeys(Tail(items))

Commas(items) == IF Len(items) > 0 THEN Len(items) - 1 ELSE 0

\* byte length of a root literal that is neither an array nor an object
\* ("string", 42, true, null: the literals of the chunker's test); of a text
\* that is no JSON (root "invalid") every byte counts as padding
PrimitiveLen(root) ==
    CASE root = "string" -> 8
      [] root = "number" -> 2
      [] root = "boolean" -> 4
      [] root = "null" -> 4
      [] OTHER -> 0

\* Buffer.byteLength(text, 'utf8')
ByteLength(text) ==
    CASE text.root = "array" ->
            text.pad + 2 + SumSizes(text.items) + Commas(text.items)
      [] text.root = "object" ->
            text.pad + 2 + SumSizes(text.items) + SumKeys(text.items)
                + Commas(text.items)
      [] OTHER -> text.pad + PrimitiveLen(text.root)

\* JSON.stringify(value): the compact text of the value
JsonStringify(value) == [root |-> value.kind, items |-> value.items, pad |-> 0]

\* JSON.parse(text): throws a SyntaxError on text that is not JSON, and drops
\* the whitespace otherwise
JsonParse(text) ==
    IF text.root = "invalid"
    THEN [threw |-> TRUE, kind |-> "SyntaxError", items |-> <<>>]
    ELSE [threw |-> FALSE, kind |-> text.root, items |-> text.items]

\* obj[key] = value on a plain object: the key __proto__ reaches the setter of
\* Object.prototype and creates no own property
SetProperty(props, entry) ==
    IF entry.key = ProtoKey THEN props ELSE Append(props, entry)

\* one iteration of the loop of chunkArray over `item`
\* st = [chunks, current, currentSize]
ChunkArrayStep(st, item) ==
    LET itemSize == item.size + (IF Len(st.current) > 0 THEN 1 ELSE 0)
    IN  IF st.currentSize + itemSize > MAX_CHUNK_SIZE
        THEN [chunks |-> Append(st.chunks,
                            JsonStringify([kind |-> "array", items |-> st.current])),
              current |-> <<item>>,
              currentSize |-> 2 + item.size]
        ELSE [chunks |-> st.chunks,
              current |-> Append(st.current, item),
              currentSize |-> st.currentSize + itemSize]

\* one iteration of the loop of chunkObject over the entry `item`
ChunkObjectStep(st, item) ==
    LET entryLen == KeyRawLen(item.key) + 3 + item.size
        entrySize == entryLen + (IF Len(st.current) > 0 THEN 1 ELSE 0)
        closed == st.currentSize + entrySize > MAX_CHUNK_SIZE
        cur == IF closed THEN <<>> ELSE st.current
        size == IF closed THEN 2 ELSE st.currentSize
    IN  [chunks |-> IF closed
                    THEN Append(st.chunks,
                            JsonStringify([kind |-> "object", items |-> st.current]))
                    ELSE st.chunks,
         current |-> SetProperty(cur, item),
         currentSize |-> size + entrySize]

\* the statement after either loop: if (current.length) chunks.push(...)
ChunkFlush(kind, st) ==
    IF Len(st.current) > 0
    THEN Append(st.chunks, JsonStringify([kind |-> kind, items |-> st.current]))
    ELSE st.chunks

ChunkStart == [chunks |-> <<>>, current |-> <<>>, currentSize |-> 2]

RECURSIVE ChunkLoop(_, _, _)
ChunkLoop(kind, st, items) ==
    IF items = <<>> THEN st
    ELSE ChunkLoop(kind,
                   IF kind = "array" THEN ChunkArrayStep(st, Head(items))
                                     ELSE ChunkObjectStep(st, Head(items)),
                   Tail(items))

chunkArray(arr) == ChunkFlush("array", ChunkLoop("array", ChunkStart, arr))
chunkObject(obj) == ChunkFlush("object", ChunkLoop("object", ChunkStart, obj))

\* rawChunks.map((chunk, i) => ({index: i, total: rawChunks.length, chunk}))
TagChunks(rawChunks) ==
    [i \in 1..Len(rawChunks) |->
        [index |-> i - 1, total |-> Len(rawChunks), chunk |-> rawChunks[i]]]

IsContainer(kind) == kind \in {"array", "object"}

UnsupportedRoot == "Unsupported JSON root type. Must be an object or array."

\* chunkJson with the short circuit ahead of the test of the root
ChunkJsonHeadSizeFirst(jsonString) ==
    LET parsed == JsonParse(jsonString)
    IN  IF parsed.threw
        THEN [threw |-> TRUE, error |-> parsed.kind, chunks |-> <<>>, split |-> FALSE]
        ELSE IF ByteLength(jsonString) <= MAX_CHUNK_SIZE
        THEN [threw |-> FALSE, error |-> "",
              chunks |-> <<[index |-> 0, total |-> 1, chunk |-> jsonString]>>,
              split |-> FALSE]
        ELSE IF ~IsContainer(parsed.kind)
        THEN [threw |-> TRUE, error |-> UnsupportedRoot, chunks |-> <<>>,
              split |-> FALSE]
        ELSE [threw |-> FALSE, error |-> "", chunks |-> <<>>, split |-> TRUE]

\* chunkJson up to the choice of the helper: the thrown error, the single
\* chunk of the short circuit, or "split" when a helper has to run
ChunkJsonHead(jsonString) ==
    LET parsed == JsonParse(jsonString)
    IN  IF parsed.threw
        THEN [threw |-> TRUE, error |-> parsed.kind, chunks |-> <<>>, split |-> FALSE]
        ELSE IF ~IsContainer(parsed.kind)
        THEN [threw |-> TRUE, error |-> UnsupportedRoot, chunks |-> <<>>,
              split |-> FALSE]
        ELSE IF ByteLength(jsonString) <= MAX_CHUNK_SIZE
        THEN [threw |-> FALSE, error |-> "",
              chunks |-> <<[index |-> 0, total |-> 1, chunk |-> jsonString]>>,
              split |-> FALSE]
        ELSE [threw |-> FALSE, error |-> "", chunks |-> <<>>, split |-> TRUE]

\* chunkJson(jsonString) as a whole
chunkJson(jsonString) ==
    LET head == ChunkJsonHead(jsonString)
    IN  IF ~head.split THEN [threw |-> head.threw, error |-> head.error,
                             chunks |-> head.chunks]
        ELSE [threw |-> FALSE, error |-> "",
              chunks |-> TagChunks(IF jsonString.root = "array"
                                   THEN chunkArray(jsonString.items)
                                   ELSE chunkObject(jsonString.items))]

\* [...chunks].sort((a, b) => a.index - b.index): an insertion sort, stable
RECURSIVE InsertByIndex(_, _)
InsertByIndex(sorted, c) ==
    IF sorted = <<>> THEN <<c>>
    ELSE IF c.index < Head(sorted).index THEN <<c>> \o sorted
    ELSE <<Head(sorted)>> \o InsertByIndex(Tail(sorted), c)

RECURSIVE SortByIndex(_)
SortByIndex(chunks) ==
    IF chunks = <<>> THEN <<>>
    ELSE InsertByIndex(SortByIndex(SubSeq(chunks, 1, Len(chunks) - 1)),
                       chunks[Len(chunks)])

\* ordered.flat(): the elements of the parsed arrays, one level deep
RECURSIVE Flat(_)
Flat(ordered) ==
    IF ordered = <<>> THEN <<>>
    ELSE Head(ordered).items \o Flat(Tail(ordered))

\* target[key] = value inside Object.assign: an ordinary [[Set]], so __proto__
\* is no own property of the target and a repeated key keeps its first place
AssignProperty(props, entry) ==
    IF entry.key = ProtoKey THEN props
    ELSE IF \E i \in 1..Len(props) : props[i].key = entry.key
    THEN [i \in 1..Len(props) |->
            IF props[i].key = entry.key THEN entry ELSE props[i]]
    ELSE Append(props, entry)

RECURSIVE AssignAll(_, _)
AssignAll(props, entries) ==
    IF entries = <<>> THEN props
    ELSE AssignAll(AssignProperty(props, Head(entries)), Tail(entries))

\* Object.assign({}, ...ordered)
RECURSIVE ObjectAssign(_, _)
ObjectAssign(props, ordered) ==
    IF ordered = <<>> THEN props
    ELSE ObjectAssign(AssignAll(props, Head(ordered).items), Tail(ordered))

UnsupportedChunk == "Unsupported chunk content"

reconstructJson(chunks) ==
    LET sorted == SortByIndex(chunks)
        ordered == [i \in 1..Len(sorted) |-> JsonParse(sorted[i].chunk)]
    IN  IF ordered = <<>>
        THEN [threw |-> TRUE, error |-> UnsupportedChunk, kind |-> "", items |-> <<>>]
        ELSE IF ordered[1].kind = "array"
        THEN [threw |-> FALSE, error |-> "", kind |-> "array", items |-> Flat(ordered)]
        ELSE IF ordered[1].kind = "object"
        THEN [threw |-> FALSE, error |-> "", kind |-> "object",
              items |-> ObjectAssign(<<>>, ordered)]
        ELSE [threw |-> TRUE, error |-> UnsupportedChunk, kind |-> "", items |-> <<>>]

\* deep equality of two parsed values (Jest's toEqual): arrays element by
\* element, objects by their own keys and values whatever the key order
DeepEqual(a, b) ==
    /\ a.kind = b.kind
    /\ IF a.kind = "array" THEN a.items = b.items
       ELSE {a.items[i] : i \in 1..Len(a.items)} = {b.items[i] : i \in 1..Len(b.items)}

(***************************************************************************)
(* JavaScript values and strings.                                          *)
(*                                                                         *)
(* An offset is a number >= 0, or one of the two values below. A string is *)
(* a sequence of pieces [src, lo, hi]: the characters lo..hi-1 of the     *)
(* content handed to the function (src = "orig") or of the marker          *)
(* 'REDACTED' (src = "mark"). The content itself is one piece, so its      *)
(* characters are told apart by their position alone.                      *)
(***************************************************************************)
\* the value of a property that is absent (undefined)
Undefined == -1
\* the value of undefined + 1
NaN == -2

\* a || b
Or(a, b) == IF a # Undefined /\ a # NaN /\ a # 0 THEN a ELSE b

\* a + 1
PlusOne(a) == IF a = Undefined \/ a = NaN THEN NaN ELSE a + 1

\* 'REDACTED'.length
MarkerLen == 8

Marker == <<[src |-> "mark", lo |-> 0, hi |-> MarkerLen]>>

\* a content of n characters
Content(n) == IF n = 0 THEN <<>> ELSE <<[src |-> "orig", lo |-> 0, hi |-> n]>>

RECURSIVE StrLen(_)
StrLen(s) == IF s = <<>> THEN 0 ELSE (Head(s).hi - Head(s).lo) + StrLen(Tail(s))

\* a + b on strings: adjoining pieces of one source are one piece
Concat(a, b) ==
    IF a = <<>> THEN b
    ELSE IF b = <<>> THEN a
    ELSE LET l == a[Len(a)]
             h == Head(b)
         IN  IF l.src = h.src /\ l.hi = h.lo
             THEN SubSeq(a, 1, Len(a) - 1) \o <<[l EXCEPT !.hi = h.hi]>> \o Tail(b)
             ELSE a \o b

\* the characters x..y-1 of s, for 0 <= x <= y <= StrLen(s)
RECURSIVE Slice(_, _, _)
Slice(s, x, y) ==
    IF s = <<>> \/ y <= 0 THEN <<>>
    ELSE LET p == Head(s)
             n == p.hi - p.lo
             lo == p.lo + Max(x, 0)
             hi == p.lo + Min(y, n)
             here == IF lo < hi THEN <<[p EXCEPT !.lo = lo, !.hi = hi]>> ELSE <<>>
         IN  Concat(here, Slice(Tail(s), Max(x - n, 0), y - n))

\* ToIntegerOrInfinity of an argument of substring, clamped to the string
Clamp(s, v) == IF v = NaN \/ v = Undefined THEN 0 ELSE Min(Max(v, 0), StrLen(s))

\* s.substring(a, b): NaN counts as 0, both ends are clamped to the string
\* and swapped when a > b
Substring(s, a, b) ==
    LET x == Clamp(s, a)
        y == Clamp(s, b)
    IN  Slice(s, Min(x, y), Max(x, y))

\* s.substring(a)
SubstringFrom(s, a) == Slice(s, Clamp(s, a), StrLen(s))

\* the characters of a string one by one: a character of the content is its
\* position, a character of the marker the (negative) code of its letter, the
\* same for both E and both D of REDACTED
MarkerChar(i) ==
    CASE i = 0 -> -1
      [] i = 1 \/ i = 6 -> -2
      [] i = 2 \/ i = 7 -> -3
      [] i = 3 -> -4
      [] i = 4 -> -5
      [] OTHER -> -6

RECURSIVE Chars(_)
Chars(s) ==
    IF s = <<>> THEN <<>>
    ELSE LET p == Head(s)
         IN  [i \in 1..(p.hi - p.lo) |->
                IF p.src = "orig" THEN p.lo + i - 1 ELSE MarkerChar(p.lo + i - 1)]
             \o Chars(Tail(s))

(***************************************************************************)
(* redactSensitiveContent (gitguardian-wrapper.js and, with the same body  *)
(* after the logging, securellmgateway/index.js)                           *)
(*                                                                         *)
(* A scan result is [has_breaks, policy_breaks]; a policy break is         *)
(* [policy, type, has_matches, matches]; a match is                        *)
(* [index_start, index_end, start, end], each an offset or Undefined.      *)
(***************************************************************************)
\* policyBreak.matches.map(match => ({...match, type, start, end, policy}))
MapMatch(policyBreak, match) ==
    [type |-> policyBreak.type,
     policy |-> policyBreak.policy,
     start |-> Or(match.index_start, match.start),
     end |-> PlusOne(Or(match.index_end, match.end))]

\* the callback of flatMap on one policy break
MatchesOfBreak(policyBreak) ==
    IF policyBreak.has_matches
    THEN [i \in 1..Len(policyBreak.matches) |->
            MapMatch(policyBreak, policyBreak.matches[i])]
    ELSE <<>>

\* scanResult.policy_breaks.flatMap(...)
RECURSIVE FlatMapMatches(_)
FlatMapMatches(policy_breaks) ==
    IF policy_breaks = <<>> THEN <<>>
    ELSE MatchesOfBreak(Head(policy_breaks)) \o FlatMapMatches(Tail(policy_breaks))

\* (a, b) => b.start - a.start, where a NaN result counts as +0
\* (-1: a before b, 1: b before a, 0: the two compare equal)
CompareStart(a, b) ==
    IF a.start = Undefined \/ b.start = Undefined THEN 0
    ELSE IF b.start - a.start < 0 THEN -1
    ELSE IF b.start - a.start > 0 THEN 1
    ELSE 0

\* the comparator is a consistent comparison function for these elements:
\* comparing equal is transitive
ConsistentComparator(ms) ==
    \A i, j, k \in 1..Len(ms) :
        (CompareStart(ms[i], ms[j]) = 0 /\ CompareStart(ms[j], ms[k]) = 0)
            => CompareStart(ms[i], ms[k]) = 0

RECURSIVE InsertSorted(_, _)
InsertSorted(sorted, m) ==
    IF sorted = <<>> THEN <<m>>
    ELSE IF CompareStart(m, Head(sorted)) < 0 THEN <<m>> \o sorted
    ELSE <<Head(sorted)>> \o InsertSorted(Tail(sorted), m)

\* the stable sort Array.prototype.sort performs with a consistent comparator
RECURSIVE StableSort(_)
StableSort(ms) ==
    IF ms = <<>> THEN <<>>
    ELSE InsertSorted(StableSort(SubSeq(ms, 1, Len(ms) - 1)), ms[Len(ms)])

Orderings(ms) ==
    {[i \in 1..Len(ms) |-> ms[f[i]]] :
        f \in {g \in [1..Len(ms) -> 1..Len(ms)] :
                    \A i, j \in 1..Len(ms) : i # j => g[i] # g[j]}}

\* what allMatches may be after .sort(...): the stable order, and with a
\* comparator that is not consistent (a start is undefined among different
\* starts) an order the engine is free to choose
SortOutcomes(ms) ==
    IF ConsistentComparator(ms) THEN {StableSort(ms)} ELSE Orderings(ms)

\* the loop over allMatches, lines 118-141
\* acc = [content, redactions, processedRanges]
RedactOne(original, acc, match) ==
    IF match.start = Undefined \/ match.end = Undefined THEN acc
    ELSE IF <<match.start, match.end>> \in acc.processedRanges THEN acc
    ELSE LET before == Substring(acc.content, 0, match.start)
             after == SubstringFrom(acc.content, match.end)
         IN  [content |-> Concat(Concat(before, Marker), after),
              redactions |-> Append(acc.redactions,
                    [type |-> match.type,
                     start |-> match.start,
                     end |-> match.end,
                     original |-> Substring(original, match.start, match.end),
                     policy |-> match.policy]),
              processedRanges |-> acc.processedRanges \cup {<<match.start, match.end>>}]

RECURSIVE RedactLoop(_, _, _)
RedactLoop(original, acc, matches) ==
    IF matches = <<>> THEN acc
    ELSE RedactLoop(original, RedactOne(original, acc, Head(matches)), Tail(matches))

\* redactSensitiveContent without the test for an absent policy_breaks:
\* flatMap of undefined throws a TypeError
redactWithoutAbsentCheck(content, scanResult, sorted) ==
    IF scanResult.has_breaks /\ Len(scanResult.policy_breaks) = 0
    THEN [threw |-> FALSE, content |-> content, redactions |-> <<>>]
    ELSE IF ~scanResult.has_breaks
    THEN [threw |-> TRUE, content |-> <<>>, redactions |-> <<>>]
    ELSE LET acc == RedactLoop(content,
                        [content |-> content, redactions |-> <<>>,
                         processedRanges |-> {}],
                        sorted)
         IN  [threw |-> FALSE, content |-> acc.content, redactions |-> acc.redactions]

\* redactSensitiveContent(content, scanResult), given the order `sorted` the
\* sort left allMatches in
redactSensitiveContent(content, scanResult, sorted) ==
    IF ~scanResult.has_breaks \/ Len(scanResult.policy_breaks) = 0
    THEN [threw |-> FALSE, content |-> content, redactions |-> <<>>]
    ELSE LET acc == RedactLoop(content,
                        [content |-> content, redactions |-> <<>>,
                         processedRanges |-> {}],
                        sorted)
         IN  [threw |-> FALSE, content |-> acc.content, redactions |-> acc.redactions]

\* the orders the sort may leave for a scan result (none matters when the
\* function returns early)
SortedMatches(scanResult) ==
    IF ~scanResult.has_breaks THEN {<<>>}
    ELSE SortOutcomes(FlatMapMatches(scanResult.policy_breaks))

(***************************************************************************)
(* gitguardian-wrapper.js: buildDocuments, gitguardianMultiscan, scan      *)
(*                                                                         *)
(* An error is [msg, n, txt]: the fixed part of its message, the number the *)
(* message carries (a chunk count, an HTTP status; 0 when it has none) and *)
(* the text it ends with ("" when it has none).                            *)
(***************************************************************************)
MAX_MB == 1
MAX_DOC_SIZE == MAX_MB * 1024 * 1024
MAX_DOCS == 20

Err(msg, n) == [msg |-> msg, n |-> n, txt |-> ""]
NoError == Err("", 0)

ApiKeyRequired == "GitGuardian API key is required"
TooManyChunks == "File would need chunks; aborting."
ApiError == "GitGuardian API error"

\* documents numbered from 1 instead of 0
PartDocumentsFromOne(chunks, filename) ==
    [i \in 1..Len(chunks) |->
        [filename |-> filename, part |-> i, document |-> chunks[i].chunk]]

\* the documents of chunks.map((doc, i) => ({filename: `${filename}.part${i}`,
\* document: doc})); part is Undefined for the one document of a small content
PartDocuments(chunks, filename) ==
    [i \in 1..Len(chunks) |->
        [filename |-> filename, part |-> i - 1, document |-> chunks[i].chunk]]

\* buildDocuments that sends the first MAX_DOCS chunks of a longer list
buildDocumentsTruncating(raw, filename) ==
    IF ByteLength(raw) <= MAX_DOC_SIZE
    THEN [threw |-> FALSE, error |-> NoError,
          docs |-> <<[filename |-> filename, part |-> Undefined, document |-> raw]>>]
    ELSE LET c == chunkJson(raw)
         IN  IF c.threw
             THEN [threw |-> TRUE, error |-> Err(c.error, 0), docs |-> <<>>]
             ELSE [threw |-> FALSE, error |-> NoError,
                   docs |-> PartDocuments(SubSeq(c.chunks, 1,
                                Min(Len(c.chunks), MAX_DOCS)), filename)]

\* buildDocuments(raw, filename)
buildDocuments(raw, filename) ==
    IF ByteLength(raw) <= MAX_DOC_SIZE
    THEN [threw |-> FALSE, error |-> NoError,
          docs |-> <<[filename |-> filename, part |-> Undefined, document |-> raw]>>]
    ELSE LET c == chunkJson(raw)
         IN  IF c.threw
             THEN [threw |-> TRUE, error |-> Err(c.error, 0), docs |-> <<>>]
             ELSE IF Len(c.chunks) > MAX_DOCS
             THEN [threw |-> TRUE, error |-> Err(TooManyChunks, Len(c.chunks)),
                   docs |-> <<>>]
             ELSE [threw |-> FALSE, error |-> NoError,
                   docs |-> PartDocuments(c.chunks, filename)]

\* gitguardianMultiscan up to its await of fetchFn, lines 34-59, for a
\* string argument: the error thrown, or the documents of the request
MultiscanRequest(content, apiKey, filename) ==
    IF apiKey = ""
    THEN [threw |-> TRUE, error |-> Err(ApiKeyRequired, 0), docs |-> <<>>]
    ELSE buildDocuments(content, filename)

\* `GitGuardian API error ${resp.status}: ${txt}`, line 63
ApiErrorOf(status, txt) == [msg |-> ApiError, n |-> status, txt |-> txt]

\* resp.text().catch(() => resp.statusText), line 62
BodyText(resp) == IF resp.text_rejects THEN resp.statusText ELSE resp.text

\* a client that posts every document in a request of its own
FetchCallsPerDocument(requests, apiKey, docs) ==
    requests \o [i \in 1..Len(docs) |->
                    [authorization |-> <<"Bearer", apiKey>>, body |-> <<docs[i]>>]]

\* the requests sent once gitguardianMultiscan has called fetchFn, lines
\* 52-59: one POST with the header Authorization: Bearer <apiKey> and the
\* array of all documents as its body
FetchCalls(requests, apiKey, docs) ==
    Append(requests, [authorization |-> <<"Bearer", apiKey>>, body |-> docs])

\* gitguardianMultiscan after the await, lines 61-65. A response is
\* [kind, status, statusText, text, text_rejects, results]: fetch rejected
\* ("reject"), the detector answered with a status outside 2xx ("error"),
\* with a body that is no JSON ("garbage") or with the results of the
\* documents ("ok")
MultiscanResponse(resp) ==
    CASE resp.kind = "reject" ->
            [threw |-> TRUE, error |-> Err(resp.text, 0), results |-> <<>>]
      [] resp.kind = "error" ->
            [threw |-> TRUE, error |-> ApiErrorOf(resp.status, BodyText(resp)),
             results |-> <<>>]
      [] resp.kind = "garbage" ->
            [threw |-> TRUE, error |-> Err("SyntaxError", 0), results |-> <<>>]
      [] OTHER ->
            [threw |-> FALSE, error |-> NoError, results |-> resp.results]

\* the loop of scan over the results, lines 179-183
RECURSIVE CombineBreaks(_)
CombineBreaks(results) ==
    IF results = <<>> THEN <<>>
    ELSE (IF Head(results).has_breaks /\ Len(Head(results).policy_breaks) > 0
          THEN Head(results).policy_breaks ELSE <<>>)
         \o CombineBreaks(Tail(results))

\* an aggregation that keeps one copy of policy breaks that are alike
RECURSIVE WithoutRepeats(_)
WithoutRepeats(breaks) ==
    IF breaks = <<>> THEN <<>>
    ELSE LET front == WithoutRepeats(SubSeq(breaks, 1, Len(breaks) - 1))
             last == breaks[Len(breaks)]
         IN  IF \E i \in 1..Len(front) : front[i] = last THEN front
             ELSE Append(front, last)

AggregateWithoutRepeats(results) ==
    IF Len(results) = 1 THEN results[1]
    ELSE [has_breaks |-> TRUE, policy_breaks |-> WithoutRepeats(CombineBreaks(results))]

\* the scan result of scan, lines 170-184
Aggregate(results) ==
    IF Len(results) = 1 THEN results[1]
    ELSE [has_breaks |-> TRUE, policy_breaks |-> CombineBreaks(results)]

NoScanResult == [has_breaks |-> FALSE, policy_breaks |-> <<>>]

\* a catch block that swallows the error without reporting it
ScanCaughtSilently(content, error) ==
    [content |-> content, redactions |-> <<>>,
     has_error |-> FALSE, error |-> NoError,
     has_scan_result |-> FALSE, scan_result |-> NoScanResult]

\* a catch block that reports the error and gives back no content
ScanCaughtDroppingContent(content, error) ==
    [content |-> <<>>, redactions |-> <<>>,
     has_error |-> TRUE, error |-> error,
     has_scan_result |-> FALSE, scan_result |-> NoScanResult]

\* the object scan returns from its catch block, lines 197-205
ScanCaught(content, error) ==
    [content |-> content, redactions |-> <<>>,
     has_error |-> TRUE, error |-> error,
     has_scan_result |-> FALSE, scan_result |-> NoScanResult]

\* a try block that redacts whatever the option says
ScanReturnedRedacting(text, scanResult, redact, sorted) ==
    LET r == redactSensitiveContent(text, scanResult, sorted)
    IN  [content |-> r.content, redactions |-> r.redactions,
         has_error |-> FALSE, error |-> NoError,
         has_scan_result |-> FALSE, scan_result |-> NoScanResult]

\* the object scan returns from its try block, lines 186-196; text is the
\* content as a string
ScanReturned(text, scanResult, redact, sorted) ==
    IF redact
    THEN LET r == redactSensitiveContent(text, scanResult, sorted)
         IN  [content |-> r.content, redactions |-> r.redactions,
              has_error |-> FALSE, error |-> NoError,
              has_scan_result |-> FALSE, scan_result |-> NoScanResult]
    ELSE [content |-> text, redactions |-> <<>>,
          has_error |-> FALSE, error |-> NoError,
          has_scan_result |-> TRUE, scan_result |-> scanResult]

(***************************************************************************)
(* securellmgateway/index.js                                               *)
(*                                                                         *)
(* A request body is [parses, model, is_array, messages]; a message is     *)
(* [role, kind, content]: kind tells whether content is missing, the empty *)
(* string, a value that is no string ("number") or a string, and content   *)
(* is the string (its characters are those of the message's own text).     *)
(***************************************************************************)
ClaudeSonnet == "anthropic.claude-3-sonnet-20240229-v1:0"

\* SUPPORTED_MODELS[model] is truthy: the model is a key of the object, or a
\* property every object inherits from Object.prototype
Supported(model) == model \in {ClaudeSonnet, "toString"}

\* SUPPORTED_MODELS[model].bedrockName is defined
HasBedrockName(model) == model = ClaudeSonnet

\* validateMessage(message): the code of the error, "" for a valid message
validateMessage(message) ==
    IF message.role = "" \/ message.kind \in {"missing", "empty"}
    THEN "invalid_message_format"
    ELSE IF message.kind # "string" THEN "invalid_content_type"
    ELSE ""

RECURSIVE FirstMessageError(_)
FirstMessageError(messages) ==
    IF messages = <<>> THEN ""
    ELSE IF validateMessage(Head(messages)) # "" THEN validateMessage(Head(messages))
    ELSE FirstMessageError(Tail(messages))

\* the checks of processChatCompletion, lines 263-311: the code of the 400
\* response, "" when the request passes
Validate(body) ==
    IF body.model = "" \/ ~body.is_array \/ body.messages = <<>>
    THEN "missing_fields"
    ELSE IF ~Supported(body.model) THEN "model_not_supported"
    ELSE FirstMessageError(body.messages)

\* the length of extractContentForScanning(messages): the contents joined
\* by two line feeds
RECURSIVE JoinedLen(_)
JoinedLen(messages) ==
    IF messages = <<>> THEN 0
    ELSE StrLen(Head(messages).content)
         + (IF Len(messages) > 1 THEN 2 ELSE 0) + JoinedLen(Tail(messages))

\* convertToAnthropicFormat(messages): per message the speaker its text is
\* put under and the text; a system message is followed by an acknowledgement
ConvertToAnthropicFormat(messages) ==
    [i \in 1..Len(messages) |->
        [speaker |-> IF messages[i].role = "assistant" THEN "Assistant" ELSE "Human",
         text |-> messages[i].content,
         acknowledged |-> messages[i].role = "system"]]

\* redactSensitiveContent of index.js, lines 74-141: the events it logs are
\* not awaited and cannot fail it
GatewayRedact(content, scanResult, sorted) ==
    IF ~scanResult.has_breaks \/ Len(scanResult.policy_breaks) = 0
    THEN [threw |-> FALSE, content |-> content, redactions |-> <<>>]
    ELSE LET acc == RedactLoop(content,
                        [content |-> content, redactions |-> <<>>,
                         processedRanges |-> {}],
                        sorted)
         IN  [threw |-> FALSE, content |-> acc.content, redactions |-> acc.redactions]

\* scanWithGitGuardian(content), lines 149-186, for what the environment does
\* to the call. An answer is [kind, status, is_null, result]: the key could
\* not be fetched ("ssm"), the request failed ("transport"), the body was no
\* JSON ("garbage") or it was parsed ("parsed", whatever the status); a
\* parsed body is null or an object, which holds policy_breaks or does not
ScanWithGitGuardian(answer) ==
    CASE answer.kind = "ssm" ->
            [threw |-> TRUE, fetched |-> 1, requested |-> 0,
             is_null |-> FALSE, result |-> NoScanResult]
      [] answer.kind \in {"transport", "garbage"} ->
            [threw |-> TRUE, fetched |-> 1, requested |-> 1,
             is_null |-> FALSE, result |-> NoScanResult]
      [] OTHER ->
            [threw |-> FALSE, fetched |-> 1, requested |-> 1,
             is_null |-> answer.is_null, result |-> answer.result]

\* a gateway that scans and keeps the text as it was
RedactedTextDiscarded(text, scanned, sorted) == text

\* lines 328-338 and 376-385 after the scan: the text the message (or the
\* model's response) holds afterwards. Reading policy_breaks of null throws
\* inside the try block, and the text stays as it is
RedactedText(text, scanned, sorted) ==
    IF scanned.threw \/ scanned.is_null THEN text
    ELSE LET r == GatewayRedact(text, scanned.result, sorted)
         IN  IF Len(r.redactions) > 0 THEN r.content ELSE text

\* the same without the try block around the scan
PromptScanThrows(scanned) == scanned.threw \/ scanned.is_null

\* what one call of scanWithGitGuardian at a step of processChatCompletion
\* came to: the detector's answer, whether the call (or the use of its
\* result) threw, whether the text scanned was rewritten, and the number of
\* redactions redactSensitiveContent returned
ScanRecord(step, text, answer, scanned, sorted) ==
    [step |-> step, kind |-> answer.kind, status |-> answer.status,
     threw |-> scanned.threw \/ scanned.is_null,
     rewritten |-> step # "prompt" /\ RedactedText(text, scanned, sorted) # text,
     result |-> scanned.result,
     applied |-> IF step = "prompt" \/ scanned.threw \/ scanned.is_null THEN 0
                 ELSE Len(GatewayRedact(text, scanned.result, sorted).redactions)]

(***************************************************************************)
(* The inputs of the chunker specification.                                *)
(***************************************************************************)
\* the serialized sizes a child may have when the smallest child has `small`
\* bytes: small, the two sizes around an exact fit beside a small child, and
\* the two sizes around the limit itself
ChildSizes(small) ==
    {small, MAX_CHUNK_SIZE - 3 - small, MAX_CHUNK_SIZE - 2 - small,
     MAX_CHUNK_SIZE - 1, MAX_CHUNK_SIZE + 1}

ArraySizes == ChildSizes(1)
\* the size of an object entry is KeyRawLen + 3 + that of its value
EntrySizes == ChildSizes(KeyRawLen(PlainKey) + 3 + 1)
ValueSizes == {e - (KeyRawLen(PlainKey) + 3) : e \in EntrySizes}

ArrayItems ==
    UNION {{[i \in 1..n |-> [key |-> "", id |-> i, size |-> sz[i]]] :
                sz \in [1..n -> ArraySizes]} : n \in 0..MaxChildren}

ObjectItems ==
    UNION {{[i \in 1..n |-> [key |-> ks[i], id |-> i, size |-> sz[i]]] :
                sz \in [1..n -> ValueSizes],
                ks \in {f \in [1..n -> Keys] :
                            \A i, j \in 1..n : i # j => f[i] # f[j]}} :
           n \in 0..MaxChildren}

Pads == {0, MAX_CHUNK_SIZE}

ChunkerInputs ==
    {[root |-> "array", items |-> it, pad |-> p] : it \in ArrayItems, p \in Pads}
    \cup {[root |-> "object", items |-> it, pad |-> p] :
            it \in ObjectItems, p \in Pads}
    \cup {[root |-> r, items |-> <<>>, pad |-> p] :
            r \in {"string", "number", "boolean", "null", "invalid"}, p \in Pads}

(***************************************************************************)
(* The inputs of the redaction specification.                              *)
(***************************************************************************)
Offsets == 0..(MaxLen - 1)

NoMatchFields ==
    [index_start |-> Undefined, index_end |-> Undefined,
     start |-> Undefined, end |-> Undefined]

\* matches as the detector reports them: index_start and index_end, the end
\* inclusive
IndexMatches ==
    {[NoMatchFields EXCEPT !.index_start = s, !.index_end = e] :
        s \in Offsets, e \in Offsets} \ {m \in
            {[NoMatchFields EXCEPT !.index_start = s, !.index_end = e] :
                s \in Offsets, e \in Offsets} : m.index_start > m.index_end}

\* matches in the other spelling the function accepts: start and end
StartEndMatches ==
    {m \in {[NoMatchFields EXCEPT !.start = s, !.end = e] :
                s \in Offsets, e \in Offsets} : m.start <= m.end}

\* matches without one or both offsets (the detector's filename matches)
PartialMatches ==
    {NoMatchFields}
    \cup {[NoMatchFields EXCEPT !.index_start = s] : s \in Offsets}
    \cup {[NoMatchFields EXCEPT !.index_end = e] : e \in Offsets}

Matches == IndexMatches \cup StartEndMatches \cup PartialMatches

\* the i-th policy break of a scan result; it carries no matches property,
\* no match, one match, or a match without offsets followed by one the
\* detector located
BreaksAt(i, matches) ==
    {[policy |-> i, type |-> i, has_matches |-> FALSE, matches |-> <<>>],
     [policy |-> i, type |-> i, has_matches |-> TRUE, matches |-> <<>>]}
    \cup {[policy |-> i, type |-> i, has_matches |-> TRUE, matches |-> <<m>>] :
            m \in matches}
    \cup {[policy |-> i, type |-> i, has_matches |-> TRUE,
           matches |-> <<NoMatchFields, m>>] : m \in matches \cap IndexMatches}

BreakLists(n, matches) ==
    {bs \in [1..n -> UNION {BreaksAt(i, matches) : i \in 1..n}] :
        \A i \in 1..n : bs[i].policy = i}

ScanResults ==
    {NoScanResult}
    \cup {[has_breaks |-> TRUE, policy_breaks |-> bs] :
            bs \in UNION {BreakLists(n, Matches) : n \in 0..MaxBreaks}}

\* every offset a match of the scan result gives lies inside a content of n
\* characters: the detector reports what it found in the document it was sent
MatchInside(m, n) ==
    /\ m.index_start < n
    /\ m.index_end < n
    /\ m.start < n
    /\ m.end < n

InsideContent(scanResult, n) ==
    \A i \in 1..Len(scanResult.policy_breaks) :
        \A j \in 1..Len(scanResult.policy_breaks[i].matches) :
            MatchInside(scanResult.policy_breaks[i].matches[j], n)

(***************************************************************************)
(* The inputs of the scan specification.                                   *)
(***************************************************************************)
\* an element too big to share a chunk with another one
BigItem == MAX_CHUNK_SIZE - 3

BigArray(k) ==
    [root |-> "array",
     items |-> [i \in 1..k |-> [key |-> "", id |-> i, size |-> BigItem]],
     pad |-> 0]

ScanContents ==
    \* plain text within the limit, and beyond it
    {[root |-> "invalid", items |-> <<>>, pad |-> n] : n \in 0..MaxLen}
    \cup {[root |-> "invalid", items |-> <<>>, pad |-> MAX_DOC_SIZE + 1]}
    \* a JSON string beyond the limit, and an empty array padded beyond it
    \cup {[root |-> "string", items |-> <<>>, pad |-> MAX_DOC_SIZE]}
    \cup {[root |-> "array", items |-> <<>>, pad |-> MAX_DOC_SIZE]}
    \* arrays of big elements
    \cup {BigArray(k) : k \in 1..MaxItems}
    \cup {BigArray(k) : k \in MAX_DOCS..(MAX_DOCS + MaxOver)}

\* what the detector may report for one document: nothing, or one policy
\* break with one match of one or two characters that starts among the
\* first three of the document
DocMatches ==
    {m \in IndexMatches : m.index_start <= 2 /\ m.index_end <= m.index_start + 1}

DocResults ==
    {NoScanResult, [has_breaks |-> TRUE, policy_breaks |-> <<>>]}
    \cup {[has_breaks |-> TRUE,
           policy_breaks |-> <<[policy |-> 1, type |-> 1, has_matches |-> TRUE,
                                 matches |-> <<m>>]>>] : m \in DocMatches}

CleanResult == [has_breaks |-> TRUE, policy_breaks |-> <<>>]

\* the results of n documents: anything for the first MaxItems documents,
\* nothing found in the others
ResultLists(docs) ==
    {rs \in {[i \in 1..Len(docs) |-> IF i <= MaxItems THEN f[i] ELSE CleanResult] :
                f \in [1..Min(Len(docs), MaxItems) -> DocResults]} :
        \A i \in 1..Len(docs) : InsideContent(rs[i], ByteLength(docs[i].document))}

StatusTextOf(status) ==
    IF status = 401 THEN "Unauthorized"
    ELSE IF status = 500 THEN "Internal Server Error"
    ELSE IF status = 200 THEN "OK" ELSE ""

Responses(docs) ==
    {[kind |-> "reject", status |-> 0, statusText |-> "", text |-> "fetch failed",
      text_rejects |-> FALSE, results |-> <<>>],
     [kind |-> "garbage", status |-> 200, statusText |-> "OK", text |-> "",
      text_rejects |-> FALSE, results |-> <<>>]}
    \cup {[kind |-> "error", status |-> st, statusText |-> StatusTextOf(st),
           text |-> "Invalid API key", text_rejects |-> tr,
           results |-> <<>>] : st \in {401, 500}, tr \in BOOLEAN}
    \cup {[kind |-> "ok", status |-> 200, statusText |-> "OK", text |-> "",
           text_rejects |-> FALSE, results |-> rs] :
            rs \in ResultLists(docs)}

NoResponse ==
    [kind |-> "none", status |-> 0, statusText |-> "", text |-> "",
     text_rejects |-> FALSE, results |-> <<>>]

\* a fetch whose promise never settles
NeverSettles == [NoResponse EXCEPT !.kind = "pending"]

(***************************************************************************)
(* The inputs of the gateway specification.                                *)
(***************************************************************************)
\* a message: no role or one of two roles; content missing, empty, no string
\* or a string of MaxLen characters
GatewayMessages ==
    {[role |-> r, kind |-> k, content |-> IF k = "string" THEN Content(MaxLen) ELSE <<>>] :
        r \in {"", "user", "system"},
        k \in {"missing", "empty", "number", "string"}}

GatewayBodies ==
    {[parses |-> FALSE, model |-> "", is_array |-> FALSE, messages |-> <<>>]}
    \cup {[parses |-> TRUE, model |-> m, is_array |-> FALSE, messages |-> <<>>] :
            m \in {"", ClaudeSonnet}}
    \cup {[parses |-> TRUE, model |-> m, is_array |-> TRUE, messages |-> ms] :
            m \in {"", ClaudeSonnet, "gpt-4", "toString"},
            ms \in UNION {[1..n -> GatewayMessages] : n \in 0..MaxMsgs}}

\* what the detector may answer for a text of n characters
GatewayAnswers(n) ==
    {[kind |-> k, status |-> 0, is_null |-> FALSE, result |-> NoScanResult] :
        k \in {"ssm", "transport", "garbage"}}
    \cup {[kind |-> "parsed", status |-> 200, is_null |-> TRUE, result |-> NoScanResult],
          [kind |-> "parsed", status |-> 401, is_null |-> FALSE, result |-> NoScanResult]}
    \cup {[kind |-> "parsed", status |-> 200, is_null |-> FALSE, result |-> r] :
            r \in {x \in DocResults : x.has_breaks /\ InsideContent(x, n)}}

(***************************************************************************)
(* State.                                                                  *)
(***************************************************************************)
VARIABLES
    jsonString,   \* chunker: the argument of chunkJson
    cpc,          \* chunker: position ("start", "array", "object", "chunked",
                  \*          "threw", "done", or "idle" outside this part)
    rest,         \* chunker: the children the running loop has yet to visit
    packing,      \* chunker: [chunks, current, currentSize] of the running loop
    chunked,      \* chunker: what chunkJson returned or threw
    rebuilt,      \* chunker: what reconstructJson returned or threw
    rLen,         \* redaction: the length of the content argument
    rScan,        \* redaction: the scanResult argument
    rpc,          \* redaction: "call", "returned" ("idle" outside this part)
    rSorted,      \* redaction: allMatches as the sort left it
    rOut,         \* redaction: what redactSensitiveContent returned
    sContent,     \* scan: the content argument, as a text
    sApiKey,      \* scan: the apiKey argument
    sRedact,      \* scan: options.redact
    spc,          \* scan: "call", "awaiting", "done" ("idle" outside this part)
    sDocs,        \* scan: the documents of the request
    sRequests,    \* scan: the requests sent to the detector so far
    sResponse,    \* scan: the response fetch settled with
    sFailure,     \* scan: the error thrown inside the try block
    sOutcome,     \* scan: what scan resolved to
    gBody,        \* gateway: the request body; the scans rewrite its messages
    gModelWorks,  \* gateway: whether Bedrock answers the InvokeModelCommand
    gpc,          \* gateway: "start", "prompt", "messages", "model",
                  \*          "response", "done" ("idle" outside this part)
    gIndex,       \* gateway: the message the loop of scans is at
    gKeyFetches,  \* gateway: calls of getGitGuardianApiKey so far
    gDetectorCalls, \* gateway: requests sent to the detector so far
    gModelCalls,  \* gateway: InvokeModelCommands sent so far
    gFailedScans, \* gateway: the scans that threw ("prompt", "message",
                  \*          "response")
    gScans,       \* gateway: per call of scanWithGitGuardian so far, what the
                  \*          detector answered and what the call did
    gPrompt,      \* gateway: the prompt sent to the model
    gLlm,         \* gateway: llmResponse
    gResponse,    \* gateway: the response of the handler
    fReadable,    \* fetch-file: whether output.json can be read
    fContent,     \* fetch-file: the content of output.json
    fKey,         \* fetch-file: the API key fetched
    fpc,          \* fetch-file: "start", "key", "scan", "pending", "done"
                  \*             ("idle" outside this part)
    fScans,       \* fetch-file: the calls of scan that have returned
    fScanned,     \* fetch-file: what scan returned
    fReply,       \* fetch-file: the response of the tool
    cCalls,       \* concurrent scans: per invocation, the arguments of scan
    cpcs,         \* concurrent scans: per invocation, "call", "awaiting", "done"
    cResps,       \* concurrent scans: per invocation, what its fetch settled to
    cOuts,        \* concurrent scans: per invocation, what scan returned
    cLast         \* concurrent scans: the invocation called last (0: none)

chunkVars == <<jsonString, cpc, rest, packing, chunked, rebuilt>>
redactVars == <<rLen, rScan, rpc, rSorted, rOut>>
scanVars == <<sContent, sApiKey, sRedact, spc, sDocs, sRequests, sResponse,
              sFailure, sOutcome>>
toolVars == <<fReadable, fContent, fKey, fpc, fScans, fScanned, fReply>>
concVars == <<cCalls, cpcs, cResps, cOuts, cLast>>
gatewayVars == <<gBody, gModelWorks, gpc, gIndex, gKeyFetches, gDetectorCalls,
                 gModelCalls, gFailedScans, gScans, gPrompt, gLlm, gResponse>>
vars == <<chunkVars, redactVars, scanVars, gatewayVars, toolVars, concVars>>

NoText == [root |-> "null", items |-> <<>>, pad |-> 0]
NoChunked == [threw |-> FALSE, error |-> "", chunks |-> <<>>]
NoRebuilt == [threw |-> FALSE, error |-> "", kind |-> "", items |-> <<>>]
NoOut == [threw |-> FALSE, content |-> <<>>, redactions |-> <<>>]
NoOutcome ==
    [content |-> <<>>, redactions |-> <<>>, has_error |-> FALSE, error |-> NoError,
     has_scan_result |-> FALSE, scan_result |-> NoScanResult]

ChunkerIdle ==
    /\ jsonString = NoText
    /\ cpc = "idle"
    /\ rest = <<>>
    /\ packing = ChunkStart
    /\ chunked = NoChunked
    /\ rebuilt = NoRebuilt

RedactIdle ==
    /\ rLen = 0
    /\ rScan = NoScanResult
    /\ rpc = "idle"
    /\ rSorted = <<>>
    /\ rOut = NoOut

ScanIdle ==
    /\ sContent = NoText
    /\ sApiKey = ""
    /\ sRedact = TRUE
    /\ spc = "idle"
    /\ sDocs = <<>>
    /\ sRequests = <<>>
    /\ sResponse = NoResponse
    /\ sFailure = NoError
    /\ sOutcome = NoOutcome

NoBody == [parses |-> FALSE, model |-> "", is_array |-> FALSE, messages |-> <<>>]
NoResponseYet == [statusCode |-> 0, code |-> "", content |-> <<>>]

NoReply == [kind |-> "none", text |-> <<>>, error |-> NoError]

ToolIdle ==
    /\ fReadable = FALSE
    /\ fContent = NoText
    /\ fKey = ""
    /\ fpc = "idle"
    /\ fScans = 0
    /\ fScanned = NoOutcome
    /\ fReply = NoReply

ConcIdle ==
    /\ cCalls = <<>>
    /\ cpcs = <<>>
    /\ cResps = <<>>
    /\ cOuts = <<>>
    /\ cLast = 0

GatewayIdle ==
    /\ gBody = NoBody
    /\ gModelWorks = FALSE
    /\ gpc = "idle"
    /\ gIndex = 0
    /\ gKeyFetches = 0
    /\ gDetectorCalls = 0
    /\ gModelCalls = 0
    /\ gFailedScans = {}
    /\ gScans = <<>>
    /\ gPrompt = <<>>
    /\ gLlm = <<>>
    /\ gResponse = NoResponseYet

(***************************************************************************)
(* The chunker: chunkJson and reconstructJson on one input.                *)
(***************************************************************************)
ChunkerInit ==
    /\ jsonString \in ChunkerInputs
    /\ cpc = "start"
    /\ rest = <<>>
    /\ packing = ChunkStart
    /\ chunked = NoChunked
    /\ rebuilt = NoRebuilt
    /\ RedactIdle
    /\ ScanIdle
    /\ GatewayIdle
    /\ ToolIdle
    /\ ConcIdle

\* chunkJson, lines 9-23: parse, reject the root, short-circuit, or enter a
\* helper
ChunkJsonEnter ==
    /\ cpc = "start"
    /\ LET head == ChunkJsonHead(jsonString)
       IN  /\ cpc' = IF head.threw THEN "threw"
                     ELSE IF head.split THEN jsonString.root
                     ELSE "chunked"
           /\ chunked' = [threw |-> head.threw, error |-> head.error,
                          chunks |-> head.chunks]
           /\ rest' = IF head.split THEN jsonString.items ELSE <<>>
    /\ UNCHANGED <<jsonString, packing, rebuilt>>
    /\ UNCHANGED <<redactVars, scanVars, gatewayVars, toolVars, concVars>>

\* one iteration of the loop of chunkArray
ChunkArrayIterate ==
    /\ cpc = "array"
    /\ rest # <<>>
    /\ packing' = ChunkArrayStep(packing, Head(rest))
    /\ rest' = Tail(rest)
    /\ UNCHANGED <<jsonString, cpc, chunked, rebuilt>>
    /\ UNCHANGED <<redactVars, scanVars, gatewayVars, toolVars, concVars>>

\* one iteration of the loop of chunkObject
ChunkObjectIterate ==
    /\ cpc = "object"
    /\ rest # <<>>
    /\ packing' = ChunkObjectStep(packing, Head(rest))
    /\ rest' = Tail(rest)
    /\ UNCHANGED <<jsonString, cpc, chunked, rebuilt>>
    /\ UNCHANGED <<redactVars, scanVars, gatewayVars, toolVars, concVars>>

\* the end of a helper and the return of chunkJson, lines 25-29
ChunkJsonReturn ==
    /\ cpc \in {"array", "object"}
    /\ rest = <<>>
    /\ chunked' = [threw |-> FALSE, error |-> "",
                   chunks |-> TagChunks(ChunkFlush(cpc, packing))]
    /\ cpc' = "chunked"
    /\ UNCHANGED <<jsonString, rest, packing, rebuilt>>
    /\ UNCHANGED <<redactVars, scanVars, gatewayVars, toolVars, concVars>>

\* the caller hands the chunks to reconstructJson
Reconstruct ==
    /\ cpc = "chunked"
    /\ rebuilt' = reconstructJson(chunked.chunks)
    /\ cpc' = "done"
    /\ UNCHANGED <<jsonString, rest, packing, chunked>>
    /\ UNCHANGED <<redactVars, scanVars, gatewayVars, toolVars, concVars>>

ChunkerNext ==
    \/ ChunkJsonEnter
    \/ ChunkArrayIterate
    \/ ChunkObjectIterate
    \/ ChunkJsonReturn
    \/ Reconstruct

SpecChunker == ChunkerInit /\ [][ChunkerNext]_vars

(***************************************************************************)
(* The redaction: redactSensitiveContent on one content and scan result.   *)
(***************************************************************************)
RedactInit ==
    /\ rLen \in 0..MaxLen
    /\ rScan \in {sr \in ScanResults : InsideContent(sr, rLen)}
    /\ rpc = "call"
    /\ rSorted = <<>>
    /\ rOut = NoOut
    /\ ChunkerIdle
    /\ ScanIdle
    /\ GatewayIdle
    /\ ToolIdle
    /\ ConcIdle

\* the call of redactSensitiveContent
Redact ==
    /\ rpc = "call"
    /\ \E sorted \in SortedMatches(rScan) :
        /\ rSorted' = sorted
        /\ rOut' = redactSensitiveContent(Content(rLen), rScan, sorted)
    /\ rpc' = "returned"
    /\ UNCHANGED <<rLen, rScan>>
    /\ UNCHANGED <<chunkVars, scanVars, gatewayVars, toolVars, concVars>>

RedactNext == Redact

SpecRedact == RedactInit /\ [][RedactNext]_vars

(***************************************************************************)
(* The wrapper: one call of scan(content, apiKey, {redact}).               *)
(***************************************************************************)
Filename == "document.txt"

ScanInit ==
    /\ sContent \in ScanContents
    /\ sApiKey \in {"", "test-api-key"}
    /\ sRedact \in BOOLEAN
    /\ spc = "call"
    /\ sDocs = <<>>
    /\ sRequests = <<>>
    /\ sResponse = NoResponse
    /\ sFailure = NoError
    /\ sOutcome = NoOutcome
    /\ ChunkerIdle
    /\ RedactIdle
    /\ GatewayIdle
    /\ ToolIdle
    /\ ConcIdle

\* the content of scan as a string
ScanText == Content(ByteLength(sContent))

\* scan up to the await of fetch inside gitguardianMultiscan: the request is
\* sent, or the error thrown before it is caught
ScanCall ==
    /\ spc = "call"
    /\ LET req == MultiscanRequest(sContent, sApiKey, Filename)
       IN  IF req.threw
           THEN /\ sFailure' = req.error
                /\ sOutcome' = ScanCaught(ScanText, req.error)
                /\ spc' = "done"
                /\ UNCHANGED <<sDocs, sRequests>>
           ELSE /\ sDocs' = req.docs
                /\ sRequests' = FetchCalls(sRequests, sApiKey, req.docs)
                /\ spc' = "awaiting"
                /\ UNCHANGED <<sFailure, sOutcome>>
    /\ UNCHANGED <<sContent, sApiKey, sRedact, sResponse>>
    /\ UNCHANGED <<chunkVars, redactVars, gatewayVars, toolVars, concVars>>

\* fetch settles and scan runs to its end
ScanResume ==
    /\ spc = "awaiting"
    /\ \E resp \in Responses(sDocs) :
        LET got == MultiscanResponse(resp)
        IN  /\ sResponse' = resp
            /\ IF got.threw
               THEN /\ sFailure' = got.error
                    /\ sOutcome' = ScanCaught(ScanText, got.error)
               ELSE /\ sFailure' = NoError
                    /\ \E sorted \in SortedMatches(Aggregate(got.results)) :
                        sOutcome' = ScanReturned(ScanText, Aggregate(got.results),
                                                 sRedact, sorted)
    /\ spc' = "done"
    /\ UNCHANGED <<sContent, sApiKey, sRedact, sDocs, sRequests>>
    /\ UNCHANGED <<chunkVars, redactVars, gatewayVars, toolVars, concVars>>

\* the promise of fetchFn, line 52, stays pending: the call passes no signal
\* and no timeout, and nothing else settles the await
FetchNeverSettles ==
    /\ spc = "awaiting"
    /\ sResponse' = NeverSettles
    /\ spc' = "pending"
    /\ UNCHANGED <<sContent, sApiKey, sRedact, sDocs, sRequests, sFailure, sOutcome>>
    /\ UNCHANGED <<chunkVars, redactVars, gatewayVars, toolVars, concVars>>

ScanNext == ScanCall \/ ScanResume \/ FetchNeverSettles

SpecScan == ScanInit /\ [][ScanNext]_vars

\* scan moves on: a step of ScanNext, seen by the position it leaves. At
\* "call" and at "awaiting" a step of ScanNext is always possible
ScanProceeds ==
    /\ spc \in {"call", "awaiting"}
    /\ spc' \in ({"awaiting", "done", "pending"} \ {spc})

\* the event loop runs every continuation that is ready
SpecScanFair == SpecScan /\ WF_spc(ScanProceeds)

(***************************************************************************)
(* The gateway: one invocation of the handler.                             *)
(***************************************************************************)
GatewayInit ==
    /\ gBody \in GatewayBodies
    /\ gModelWorks \in BOOLEAN
    /\ gpc = "start"
    /\ gIndex = 0
    /\ gKeyFetches = 0
    /\ gDetectorCalls = 0
    /\ gModelCalls = 0
    /\ gFailedScans = {}
    /\ gScans = <<>>
    /\ gPrompt = <<>>
    /\ gLlm = <<>>
    /\ gResponse = NoResponseYet
    /\ ChunkerIdle
    /\ RedactIdle
    /\ ScanIdle
    /\ ToolIdle
    /\ ConcIdle

Status(statusCode, code) == [statusCode |-> statusCode, code |-> code, content |-> <<>>]

\* the text the model answers with
ModelText == Content(MaxLen)

\* handler and the checks of processChatCompletion: a body that is no JSON
\* gets 500, a request that fails a check 400
HandleRequest ==
    /\ gpc = "start"
    /\ IF ~gBody.parses
       THEN /\ gResponse' = Status(500, "")
            /\ gpc' = "done"
       ELSE IF Validate(gBody) # ""
       THEN /\ gResponse' = Status(400, Validate(gBody))
            /\ gpc' = "done"
       ELSE /\ gpc' = "prompt"
            /\ UNCHANGED gResponse
    /\ UNCHANGED <<gBody, gModelWorks, gIndex, gKeyFetches, gDetectorCalls,
                   gModelCalls, gFailedScans, gScans, gPrompt, gLlm>>
    /\ UNCHANGED <<chunkVars, redactVars, scanVars, toolVars, concVars>>

\* lines 313-323: the scan of the joined contents, outside any inner try
\* block; a scan that throws ends the request in the outer catch block
ScanPrompt ==
    /\ gpc = "prompt"
    /\ \E answer \in GatewayAnswers(JoinedLen(gBody.messages)) :
        LET scanned == ScanWithGitGuardian(answer)
        IN  /\ gKeyFetches' = gKeyFetches + scanned.fetched
            /\ gDetectorCalls' = gDetectorCalls + scanned.requested
            /\ gScans' = Append(gScans, ScanRecord("prompt", <<>>, answer,
                                                  scanned, <<>>))
            /\ IF PromptScanThrows(scanned)
               THEN /\ gFailedScans' = gFailedScans \cup {"prompt"}
                    /\ gResponse' = Status(500, "internal_server_error")
                    /\ gpc' = "done"
                    /\ UNCHANGED gIndex
               ELSE /\ gpc' = "messages"
                    /\ gIndex' = 1
                    /\ UNCHANGED <<gFailedScans, gResponse>>
    /\ UNCHANGED <<gBody, gModelWorks, gModelCalls, gPrompt, gLlm>>
    /\ UNCHANGED <<chunkVars, redactVars, scanVars, toolVars, concVars>>

\* one iteration of the loop of lines 326-343: the scan of a message and the
\* redaction of its content
ScanMessage ==
    /\ gpc = "messages"
    /\ gIndex <= Len(gBody.messages)
    /\ \E answer \in GatewayAnswers(StrLen(gBody.messages[gIndex].content)) :
        LET scanned == ScanWithGitGuardian(answer)
            text == gBody.messages[gIndex].content
        IN  /\ gKeyFetches' = gKeyFetches + scanned.fetched
            /\ gDetectorCalls' = gDetectorCalls + scanned.requested
            /\ gFailedScans' = IF scanned.threw \/ scanned.is_null
                               THEN gFailedScans \cup {"message"}
                               ELSE gFailedScans
            /\ \E sorted \in SortedMatches(scanned.result) :
                /\ gBody' = [gBody EXCEPT !.messages[gIndex].content =
                                RedactedText(text, scanned, sorted)]
                /\ gScans' = Append(gScans, ScanRecord("message", text, answer,
                                                      scanned, sorted))
    /\ gIndex' = gIndex + 1
    /\ UNCHANGED <<gModelWorks, gpc, gModelCalls, gPrompt, gLlm, gResponse>>
    /\ UNCHANGED <<chunkVars, redactVars, scanVars, toolVars, concVars>>

\* lines 345-372: the prompt is built and sent to Bedrock; a call that fails
\* (or a model without a Bedrock name) ends the request with 500
InvokeModel ==
    /\ gpc = "messages"
    /\ gIndex > Len(gBody.messages)
    /\ gPrompt' = ConvertToAnthropicFormat(gBody.messages)
    /\ gModelCalls' = gModelCalls + 1
    /\ IF gModelWorks /\ HasBedrockName(gBody.model)
       THEN /\ gLlm' = ModelText
            /\ gpc' = "response"
            /\ UNCHANGED gResponse
       ELSE /\ gResponse' = Status(500, "internal_server_error")
            /\ gpc' = "done"
            /\ UNCHANGED gLlm
    /\ UNCHANGED <<gBody, gModelWorks, gIndex, gKeyFetches, gDetectorCalls,
                   gFailedScans, gScans>>
    /\ UNCHANGED <<chunkVars, redactVars, scanVars, toolVars, concVars>>

\* lines 374-420: the scan of the model's response, its redaction and the
\* response of the handler
ScanResponse ==
    /\ gpc = "response"
    /\ \E answer \in GatewayAnswers(StrLen(gLlm)) :
        LET scanned == ScanWithGitGuardian(answer)
        IN  /\ gKeyFetches' = gKeyFetches + scanned.fetched
            /\ gDetectorCalls' = gDetectorCalls + scanned.requested
            /\ gFailedScans' = IF scanned.threw \/ scanned.is_null
                               THEN gFailedScans \cup {"response"}
                               ELSE gFailedScans
            /\ \E sorted \in SortedMatches(scanned.result) :
                /\ gScans' = Append(gScans, ScanRecord("response", gLlm, answer,
                                                      scanned, sorted))
                /\ gLlm' = RedactedText(gLlm, scanned, sorted)
                /\ gResponse' = [statusCode |-> 200, code |-> "",
                                 content |-> RedactedText(gLlm, scanned, sorted)]
    /\ gpc' = "done"
    /\ UNCHANGED <<gBody, gModelWorks, gIndex, gModelCalls, gPrompt>>
    /\ UNCHANGED <<chunkVars, redactVars, scanVars, toolVars, concVars>>

\* a call of scanWithGitGuardian (lines 315, 328, 376) whose request, lines
\* 169-184, gets neither a response nor an 'error' event: the request sets
\* no timeout, the promise stays pending and so does the handler
DetectorNeverAnswers ==
    /\ gpc \in {"prompt", "messages", "response"}
    /\ gpc = "messages" => gIndex <= Len(gBody.messages)
    /\ gKeyFetches' = gKeyFetches + 1
    /\ gDetectorCalls' = gDetectorCalls + 1
    /\ gpc' = "pending"
    /\ UNCHANGED <<gBody, gModelWorks, gIndex, gModelCalls, gFailedScans, gScans,
                   gPrompt, gLlm, gResponse>>
    /\ UNCHANGED <<chunkVars, redactVars, scanVars, toolVars, concVars>>

GatewayNext ==
    \/ HandleRequest
    \/ ScanPrompt
    \/ ScanMessage
    \/ InvokeModel
    \/ ScanResponse
    \/ DetectorNeverAnswers

SpecGateway == GatewayInit /\ [][GatewayNext]_vars

\* the event loop runs every continuation that is ready
SpecGatewayFair == SpecGateway /\ WF_vars(GatewayNext)

(***************************************************************************)
(* The fetch-file tool of the MCP server: output.json is read, the API key *)
(* fetched, the content given to scan of gitguardian-wrapper.js and what   *)
(* scan returns as content sent back as the text of the tool's response.   *)
(* A response is [kind, text, error]: the text of the file as scan left it *)
(* ("file") or the message of an error ("error").                          *)
(***************************************************************************)
ToolFilename == "output.json"

\* the response of the catch block, lines 110-120
ErrorReply(error) == [kind |-> "error", text |-> <<>>, error |-> error]

\* the response of the try block, lines 103-110
FileReply(redactedContent) == [kind |-> "file", text |-> redactedContent, error |-> NoError]

\* what getGitGuardianApiKey comes to: it throws, or returns the parameter
KeyOutcomes == {"throws", "", "test-api-key"}

ToolInit ==
    /\ fReadable \in BOOLEAN
    /\ fContent \in ScanContents
    /\ fKey = ""
    /\ fpc = "start"
    /\ fScans = 0
    /\ fScanned = NoOutcome
    /\ fReply = NoReply
    /\ ChunkerIdle
    /\ RedactIdle
    /\ ScanIdle
    /\ GatewayIdle
    /\ ConcIdle

\* the content of output.json as the string readFileSync returns
ToolText == Content(ByteLength(fContent))

\* lines 65-75: the file is read and the API key asked for
FetchFileRead ==
    /\ fpc = "start"
    /\ IF fReadable
       THEN /\ fpc' = "key"
            /\ UNCHANGED fReply
       ELSE /\ fReply' = ErrorReply(Err("ENOENT", 0))
            /\ fpc' = "done"
    /\ UNCHANGED <<fReadable, fContent, fKey, fScans, fScanned>>
    /\ UNCHANGED <<chunkVars, redactVars, scanVars, gatewayVars, concVars>>

\* lines 75-78: the key arrives and scan is called, or the fetch of the key
\* throws
FetchFileKey ==
    /\ fpc = "key"
    /\ \E key \in KeyOutcomes :
        IF key = "throws"
        THEN /\ fReply' = ErrorReply(Err("ParameterNotFound", 0))
             /\ fpc' = "done"
             /\ UNCHANGED fKey
        ELSE /\ fKey' = key
             /\ fpc' = "scan"
             /\ UNCHANGED fReply
    /\ UNCHANGED <<fReadable, fContent, fScans, fScanned>>
    /\ UNCHANGED <<chunkVars, redactVars, scanVars, gatewayVars, concVars>>

\* what scan(fileContent, apiKey, {filename: 'output.json'}) may return
ToolScanOutcomes ==
    LET req == MultiscanRequest(fContent, fKey, ToolFilename)
    IN  IF req.threw THEN {ScanCaught(ToolText, req.error)}
        ELSE UNION {
                LET got == MultiscanResponse(resp)
                IN  IF got.threw THEN {ScanCaught(ToolText, got.error)}
                    ELSE {ScanReturned(ToolText, Aggregate(got.results), TRUE, sorted) :
                            sorted \in SortedMatches(Aggregate(got.results))} :
                resp \in Responses(req.docs)}

\* lines 78-110: scan returns and the content it returned is sent back
FetchFileScan ==
    /\ fpc = "scan"
    /\ \E outcome \in ToolScanOutcomes :
        /\ fScanned' = outcome
        /\ fReply' = FileReply(outcome.content)
    /\ fScans' = fScans + 1
    /\ fpc' = "done"
    /\ UNCHANGED <<fReadable, fContent, fKey>>
    /\ UNCHANGED <<chunkVars, redactVars, scanVars, gatewayVars, concVars>>

\* line 78 when the fetch inside scan never settles
FetchFileScanPending ==
    /\ fpc = "scan"
    /\ ~MultiscanRequest(fContent, fKey, ToolFilename).threw
    /\ fpc' = "pending"
    /\ UNCHANGED <<fReadable, fContent, fKey, fScans, fScanned, fReply>>
    /\ UNCHANGED <<chunkVars, redactVars, scanVars, gatewayVars, concVars>>

ToolNext ==
    \/ FetchFileRead
    \/ FetchFileKey
    \/ FetchFileScan
    \/ FetchFileScanPending

SpecTool == ToolInit /\ [][ToolNext]_vars

(***************************************************************************)
(* Calls of scan that run at the same time. JavaScript runs one            *)
(* continuation at a time, so the calls interleave at the await of fetch   *)
(* inside gitguardianMultiscan: each call runs up to it, and from it to    *)
(* its return, without interruption.                                       *)
(***************************************************************************)
Invocations == 1..MaxInvocations

\* the arguments of a call: a text of MaxLen - 1 or MaxLen characters, with
\* an API key (redacting or not) or without one
ConcCallArgs ==
    {[content |-> [root |-> "invalid", items |-> <<>>, pad |-> n],
      apiKey |-> o[1], redact |-> o[2]] :
        n \in {MaxLen - 1, MaxLen},
        o \in {<<"test-api-key", TRUE>>, <<"test-api-key", FALSE>>, <<"", TRUE>>}}

\* what the fetch of a call may settle to: a rejection, the detector's 401,
\* or its results
ConcResponses(docs) ==
    {resp \in Responses(docs) :
        \/ resp.kind = "reject"
        \/ resp.kind = "error" /\ resp.status = 401 /\ ~resp.text_rejects
        \/ resp.kind = "ok" /\ \A i \in 1..Len(resp.results) : resp.results[i].has_breaks}

\* a wrapper that keeps the content of scan in a variable of the module, which
\* every call overwrites
ContentOfLastCall(p, calls, last) == calls[last].content

\* the content scan works on, lines 159-205: its own parameter, which no
\* other call can reach
ContentOf(p, calls, last) == calls[p].content

\* the order Array.prototype.sort leaves allMatches in: whatever the engine
\* does with a comparator, it does the same for the same array
EngineSort(scanResult) == CHOOSE sorted \in SortedMatches(scanResult) : TRUE

\* what scan(content, apiKey, {redact}) returns when its fetch, if it gets
\* that far, settles to resp
ScanOutcome(content, apiKey, redact, resp) ==
    LET req == MultiscanRequest(content, apiKey, Filename)
        text == Content(ByteLength(content))
        got == MultiscanResponse(resp)
    IN  IF req.threw THEN ScanCaught(text, req.error)
        ELSE IF got.threw THEN ScanCaught(text, got.error)
        ELSE ScanReturned(text, Aggregate(got.results), redact,
                          EngineSort(Aggregate(got.results)))

ConcInit ==
    /\ cCalls \in [Invocations -> ConcCallArgs]
    /\ cpcs = [p \in Invocations |-> "call"]
    /\ cResps = [p \in Invocations |-> NoResponse]
    /\ cOuts = [p \in Invocations |-> NoOutcome]
    /\ cLast = 0
    /\ ChunkerIdle
    /\ RedactIdle
    /\ ScanIdle
    /\ GatewayIdle
    /\ ToolIdle

\* invocation p runs scan up to the await of fetch, or to its return when
\* gitguardianMultiscan throws before it
ConcCall(p) ==
    /\ cpcs[p] = "call"
    /\ cLast' = p
    /\ LET content == ContentOf(p, cCalls, p)
           req == MultiscanRequest(content, cCalls[p].apiKey, Filename)
       IN  IF req.threw
           THEN /\ cOuts' = [cOuts EXCEPT ![p] =
                                ScanOutcome(content, cCalls[p].apiKey,
                                            cCalls[p].redact, NoResponse)]
                /\ cpcs' = [cpcs EXCEPT ![p] = "done"]
           ELSE /\ cpcs' = [cpcs EXCEPT ![p] = "awaiting"]
                /\ UNCHANGED cOuts
    /\ UNCHANGED <<cCalls, cResps>>
    /\ UNCHANGED <<chunkVars, redactVars, scanVars, gatewayVars, toolVars>>

\* the fetch of invocation p settles and its scan runs to its return
ConcResume(p) ==
    /\ cpcs[p] = "awaiting"
    /\ \E resp \in ConcResponses(
            MultiscanRequest(cCalls[p].content, cCalls[p].apiKey, Filename).docs) :
        /\ cResps' = [cResps EXCEPT ![p] = resp]
        /\ cOuts' = [cOuts EXCEPT ![p] =
                        ScanOutcome(ContentOf(p, cCalls, cLast), cCalls[p].apiKey,
                                    cCalls[p].redact, resp)]
    /\ cpcs' = [cpcs EXCEPT ![p] = "done"]
    /\ UNCHANGED <<cCalls, cLast>>
    /\ UNCHANGED <<chunkVars, redactVars, scanVars, gatewayVars, toolVars>>

ConcNext == \E p \in Invocations : ConcCall(p) \/ ConcResume(p)

SpecConcurrent == ConcInit /\ [][ConcNext]_vars

(***************************************************************************)
(* Properties.                                                             *)
(***************************************************************************)
\* the step-wise run of chunkJson agrees with the function as a whole
ChunkerStepsAgree == cpc \in {"chunked", "done", "threw"} => chunked = chunkJson(jsonString)

\* the serialized size of a direct child of the root on its own: the element
\* of an array, or the entry "key":value of an object
ChildLen(root, item) ==
    IF root = "array" THEN item.size
    ELSE KeyJsonLen(item.key) + 1 + item.size

ParsedInput == JsonParse(jsonString)

\* the chunks (as parsed values) that hold the entry
ChunksHolding(item) ==
    {i \in 1..Len(chunked.chunks) :
        \E j \in 1..Len(chunked.chunks[i].chunk.items) :
            chunked.chunks[i].chunk.items[j] = item}

\* C1: for every JSON text whose root is an array or an object,
\* reconstructJson(chunkJson(text)) is deep-equal to the parsed text (so the
\* elements of an array keep their order), and every key of an object root
\* is in exactly one chunk with its value.
C1_RoundTrip ==
    (cpc = "done" /\ IsContainer(jsonString.root)) =>
        /\ ~rebuilt.threw
        /\ DeepEqual([kind |-> rebuilt.kind, items |-> rebuilt.items],
                     [kind |-> ParsedInput.kind, items |-> ParsedInput.items])
        /\ jsonString.root = "object" =>
            \A i \in 1..Len(jsonString.items) :
                Cardinality(ChunksHolding(jsonString.items[i])) = 1

\* C1, what the code does keep: a root with at least one child and no
\* __proto__ key is rebuilt deep-equal
C1_RoundTripOfOrdinaryRoots ==
    (/\ cpc = "done"
     /\ IsContainer(jsonString.root)
     /\ jsonString.items # <<>>
     /\ \A i \in 1..Len(jsonString.items) : jsonString.items[i].key # ProtoKey) =>
        /\ ~rebuilt.threw
        /\ DeepEqual([kind |-> rebuilt.kind, items |-> rebuilt.items],
                     [kind |-> ParsedInput.kind, items |-> ParsedInput.items])

\* C2: every chunk chunkJson returns has at most MAX_CHUNK_SIZE bytes, unless
\* one direct child of the root alone has more than MAX_CHUNK_SIZE bytes.
C2_SizeBound ==
    cpc \in {"chunked", "done"} =>
        \/ \A i \in 1..Len(chunked.chunks) :
                ByteLength(chunked.chunks[i].chunk) <= MAX_CHUNK_SIZE
        \/ \E j \in 1..Len(jsonString.items) :
                ChildLen(jsonString.root, jsonString.items[j]) > MAX_CHUNK_SIZE

\* C2 with the exception read as widely as the code allows: a chunk may exceed
\* the limit when it holds one child alone (a child that fits no chunk once
\* the two delimiters are added). Object roots break this too.
C2_SizeBoundUnlessAlone ==
    cpc \in {"chunked", "done"} =>
        \A i \in 1..Len(chunked.chunks) :
            \/ ByteLength(chunked.chunks[i].chunk) <= MAX_CHUNK_SIZE
            \/ Len(chunked.chunks[i].chunk.items) = 1

\* C2 for array roots alone, with the wide exception: holds
C2_SizeBoundOfArrays ==
    (cpc \in {"chunked", "done"} /\ jsonString.root = "array") =>
        \A i \in 1..Len(chunked.chunks) :
            \/ ByteLength(chunked.chunks[i].chunk) <= MAX_CHUNK_SIZE
            \/ Len(chunked.chunks[i].chunk.items) = 1


(***************************************************************************)
(* Properties of redactSensitiveContent.                                   *)
(***************************************************************************)
\* the matches of a scan result as the detector reported them, in order
RECURSIVE ReportedMatches(_)
ReportedMatches(policy_breaks) ==
    IF policy_breaks = <<>> THEN <<>>
    ELSE (IF Head(policy_breaks).has_matches THEN Head(policy_breaks).matches
          ELSE <<>>)
         \o ReportedMatches(Tail(policy_breaks))

Reported(scanResult) ==
    IF scanResult.has_breaks THEN ReportedMatches(scanResult.policy_breaks) ELSE <<>>

\* a match has both offsets, in one spelling or the other
HasBothOffsets(m) ==
    \/ m.index_start # Undefined /\ m.index_end # Undefined
    \/ m.start # Undefined /\ m.end # Undefined

\* the half-open range <<start, end>> a match with both offsets flags; the
\* detector's end is inclusive
FlaggedRange(m) ==
    IF m.index_start # Undefined /\ m.index_end # Undefined
    THEN <<m.index_start, m.index_end + 1>>
    ELSE <<m.start, m.end + 1>>

\* the characters of a content of n characters with [start, end) replaced by
\* the marker
MarkerChars == [i \in 1..MarkerLen |-> MarkerChar(i - 1)]
WithRangeReplaced(n, start, end) ==
    [i \in 1..start |-> i - 1] \o MarkerChars \o [i \in 1..(n - end) |-> end + i - 1]

RedactionsOfRange(range) ==
    {k \in 1..Len(rOut.redactions) :
        rOut.redactions[k].start = range[1] /\ rOut.redactions[k].end = range[2]}

\* C3: with exactly one match, of range [start, end) inside the content, the
\* result is content[0:start] + 'REDACTED' + content[end:] and exactly one
\* Redaction is returned.
C3_SingleMatchReplaced ==
    (/\ rpc = "returned"
     /\ Len(Reported(rScan)) = 1
     /\ HasBothOffsets(Reported(rScan)[1])
     /\ FlaggedRange(Reported(rScan)[1])[2] <= rLen) =>
        LET range == FlaggedRange(Reported(rScan)[1])
        IN  /\ Chars(rOut.content) = WithRangeReplaced(rLen, range[1], range[2])
            /\ Len(rOut.redactions) = 1

\* C3, what the code does keep: the same when the range does not start at
\* offset 0 in the detector's spelling
C3_SingleMatchReplacedPastZero ==
    (/\ rpc = "returned"
     /\ Len(Reported(rScan)) = 1
     /\ HasBothOffsets(Reported(rScan)[1])
     /\ Reported(rScan)[1].index_start # 0
     /\ FlaggedRange(Reported(rScan)[1])[2] <= rLen) =>
        LET range == FlaggedRange(Reported(rScan)[1])
        IN  /\ Chars(rOut.content) = WithRangeReplaced(rLen, range[1], range[2])
            /\ Len(rOut.redactions) = 1

\* C8: when two or more policy breaks report matches of one and the same
\* range, that range is replaced once and has exactly one Redaction.
C8_IdenticalRangesOnce ==
    rpc = "returned" =>
        \A i, j \in 1..Len(Reported(rScan)) :
            (/\ i # j
             /\ HasBothOffsets(Reported(rScan)[i])
             /\ HasBothOffsets(Reported(rScan)[j])
             /\ FlaggedRange(Reported(rScan)[i]) = FlaggedRange(Reported(rScan)[j])) =>
                /\ Cardinality(RedactionsOfRange(FlaggedRange(Reported(rScan)[i]))) = 1
                /\ (Len(Reported(rScan)) = 2
                    /\ FlaggedRange(Reported(rScan)[i])[2] <= rLen) =>
                        Chars(rOut.content) =
                            WithRangeReplaced(rLen, FlaggedRange(Reported(rScan)[i])[1],
                                              FlaggedRange(Reported(rScan)[i])[2])

\* C8, what the code does keep: identical ranges that do not start at offset
\* 0 are replaced once and have exactly one Redaction
C8_IdenticalRangesOncePastZero ==
    rpc = "returned" =>
        \A i, j \in 1..Len(Reported(rScan)) :
            (/\ i # j
             /\ HasBothOffsets(Reported(rScan)[i])
             /\ HasBothOffsets(Reported(rScan)[j])
             /\ FlaggedRange(Reported(rScan)[i])[1] # 0
             /\ FlaggedRange(Reported(rScan)[i]) = FlaggedRange(Reported(rScan)[j])) =>
                /\ Cardinality(RedactionsOfRange(FlaggedRange(Reported(rScan)[i]))) = 1
                /\ (Len(Reported(rScan)) = 2
                    /\ FlaggedRange(Reported(rScan)[i])[2] <= rLen) =>
                        Chars(rOut.content) =
                            WithRangeReplaced(rLen, FlaggedRange(Reported(rScan)[i])[1],
                                              FlaggedRange(Reported(rScan)[i])[2])

\* C8, what the code does keep: identical ranges never have two Redactions
C8_IdenticalRangesAtMostOnce ==
    rpc = "returned" =>
        \A k, l \in 1..Len(rOut.redactions) :
            (rOut.redactions[k].start = rOut.redactions[l].start
             /\ rOut.redactions[k].end = rOut.redactions[l].end) => k = l

\* C9: with policy_breaks empty or absent the content is returned unchanged
\* with an empty list of redactions.
C9_NoBreaksNoChange ==
    (/\ rpc = "returned"
     /\ (~rScan.has_breaks \/ rScan.policy_breaks = <<>>)) =>
        /\ ~rOut.threw
        /\ Chars(rOut.content) = [i \in 1..rLen |-> i - 1]
        /\ rOut.redactions = <<>>

C9_Witness ==
    /\ rpc = "returned"
    /\ ~rScan.has_breaks
    /\ rLen = MaxLen
    /\ rOut.content = Content(MaxLen)

\* C10: a match lacking its start or its end is skipped (the content stays
\* as it is and no Redaction is emitted for it), and a match that has both
\* offsets is never skipped for that reason.
C10_SkippedIffOffsetMissing ==
    rpc = "returned" =>
        /\ (\A i \in 1..Len(Reported(rScan)) : ~HasBothOffsets(Reported(rScan)[i])) =>
                /\ Chars(rOut.content) = [i \in 1..rLen |-> i - 1]
                /\ rOut.redactions = <<>>
        /\ \A i \in 1..Len(Reported(rScan)) :
                HasBothOffsets(Reported(rScan)[i]) =>
                    RedactionsOfRange(FlaggedRange(Reported(rScan)[i])) # {}

\* C10, the half that a missing end offset breaks
C10_MissingOffsetSkipped ==
    (/\ rpc = "returned"
     /\ \A i \in 1..Len(Reported(rScan)) : ~HasBothOffsets(Reported(rScan)[i])) =>
        /\ Chars(rOut.content) = [i \in 1..rLen |-> i - 1]
        /\ rOut.redactions = <<>>

\* C10, the half that a start offset of 0 breaks
C10_BothOffsetsNotSkipped ==
    rpc = "returned" =>
        \A i \in 1..Len(Reported(rScan)) :
            HasBothOffsets(Reported(rScan)[i]) =>
                RedactionsOfRange(FlaggedRange(Reported(rScan)[i])) # {}


(***************************************************************************)
(* Properties of scan.                                                     *)
(***************************************************************************)
\* where the characters of the d-th document lie in the content: the offset
\* of the first child of the chunk in the compact text of the array, less
\* the 1 it has in the chunk (after the opening bracket)
RECURSIVE OffsetOfChild(_, _)
OffsetOfChild(items, j) ==
    IF j <= 1 THEN 1 ELSE OffsetOfChild(items, j - 1) + items[j - 1].size + 1

DocShift(d) ==
    OffsetOfChild(sContent.items, sDocs[d].document.items[1].id) - 1

OutcomeRedacts(start, end) ==
    \E k \in 1..Len(sOutcome.redactions) :
        /\ sOutcome.redactions[k].start = start
        /\ sOutcome.redactions[k].end = end

\* the d-th document was chunked off an array and match m lies in the
\* elements it holds
InsideElements(d, m) ==
    /\ sDocs[d].part # Undefined
    /\ sDocs[d].document.items # <<>>
    /\ m.index_start >= 1
    /\ m.index_end <= ByteLength(sDocs[d].document) - 2

\* C4: when scan split the content into several documents, the range it
\* replaces in the content for a match of a document is the text the
\* detector flagged in that document (the offsets are mapped back).
C4_OffsetsMappedBack ==
    (/\ spc = "done"
     /\ sRedact
     /\ sResponse.kind = "ok"
     /\ Len(sDocs) > 1) =>
        \A d \in 1..Len(sDocs) :
            \A i \in 1..Len(Reported(sResponse.results[d])) :
                LET m == Reported(sResponse.results[d])[i]
                IN  InsideElements(d, m) =>
                        OutcomeRedacts(DocShift(d) + m.index_start,
                                       DocShift(d) + m.index_end + 1)

\* C4, what the code does: the offsets a document reports are used as they
\* are, as offsets into the whole content
C4_OffsetsUsedUnmapped ==
    (/\ spc = "done"
     /\ sRedact
     /\ sResponse.kind = "ok"
     /\ Len(sDocs) > 1) =>
        \A d \in 1..Len(sDocs) :
            \A i \in 1..Len(Reported(sResponse.results[d])) :
                LET m == Reported(sResponse.results[d])[i]
                IN  InsideElements(d, m) =>
                        OutcomeRedacts(m.index_start, m.index_end + 1)

\* the causes of failure of a call of scan: no API key, a content beyond the
\* limit that is no JSON array or object or needs too many chunks, a request
\* that failed, a response outside 2xx or without JSON
ScanFailed ==
    \/ sApiKey = ""
    \/ /\ ByteLength(sContent) > MAX_DOC_SIZE
       /\ \/ ~IsContainer(sContent.root)
          \/ Len(sContent.items) > MAX_DOCS
    \/ sResponse.kind \in {"reject", "error", "garbage"}

\* C5: scan always resolves; when building the documents or calling the
\* detector failed, the outcome holds the content as given, no redactions
\* and the message of the failure.
C5_FailureDegradesToUnscanned ==
    (spc = "done" /\ ScanFailed) =>
        /\ sOutcome.content = ScanText
        /\ sOutcome.redactions = <<>>
        /\ sOutcome.has_error
        /\ sOutcome.error # NoError
        /\ sOutcome.error = sFailure
        /\ sApiKey = "" => sOutcome.error = Err(ApiKeyRequired, 0)
        /\ (sApiKey # "" /\ ByteLength(sContent) > MAX_DOC_SIZE
            /\ IsContainer(sContent.root) /\ Len(sContent.items) > MAX_DOCS) =>
                sOutcome.error.msg = TooManyChunks
        /\ sResponse.kind = "error" =>
                /\ sOutcome.error.msg = ApiError
                /\ sOutcome.error.n = sResponse.status

C5_Witness ==
    /\ spc = "done"
    /\ sResponse.kind = "error"
    /\ sOutcome.has_error
    /\ sOutcome.content = ScanText

\* C7: buildDocuments fails when the content needs more than MAX_DOCS chunks:
\* it returns no document, so no request is sent.
C7_TooManyChunksFails ==
    (/\ spc # "call"
     /\ sApiKey # ""
     /\ ByteLength(sContent) > MAX_DOC_SIZE
     /\ ~chunkJson(sContent).threw
     /\ Len(chunkJson(sContent).chunks) > MAX_DOCS) =>
        /\ spc = "done"
        /\ sFailure = Err(TooManyChunks, Len(chunkJson(sContent).chunks))
        /\ sDocs = <<>>
        /\ sRequests = <<>>

C7_Witness ==
    /\ spc = "done"
    /\ sFailure.msg = TooManyChunks
    /\ sFailure.n = MAX_DOCS + 1
    /\ sDocs = <<>>


(***************************************************************************)
(* Properties of the gateway.                                              *)
(***************************************************************************)
\* the request passes the checks of the gateway and Bedrock answers the call
\* it would get
ValidRequestAndModel ==
    /\ gBody.parses
    /\ Validate(gBody) = ""
    /\ HasBedrockName(gBody.model)
    /\ gModelWorks

\* C6: whatever scan fails (the key cannot be fetched, the request fails, the
\* answer is no JSON or an error), a valid request whose model call succeeds
\* gets status 200 with the model's response.
C6_ScanFailureKeepsCompletion ==
    (gpc = "done" /\ ValidRequestAndModel) =>
        /\ gResponse.statusCode = 200
        /\ gResponse.content = gLlm
        /\ "response" \in gFailedScans => gResponse.content = ModelText

\* C6, what the code does keep: the same once the scan of the joined prompt
\* has not thrown
C6_LaterScanFailuresKeepCompletion ==
    (gpc = "done" /\ ValidRequestAndModel /\ "prompt" \notin gFailedScans) =>
        /\ gResponse.statusCode = 200
        /\ gResponse.content = gLlm
        /\ "response" \in gFailedScans => gResponse.content = ModelText

\* C11: a response outside 2xx is a failed scan call, never a scan result.
\* On the gateway's path: every call of scanWithGitGuardian the detector
\* answered with a status outside 2xx threw.
C11_Non2xxIsFailedCall ==
    \A i \in 1..Len(gScans) :
        (gScans[i].kind = "parsed" /\ gScans[i].status \notin 200..299) =>
            gScans[i].threw

\* C11, what the code does keep: on the path of gitguardianMultiscan the
\* error of scan carries the status and the body's text (the status text
\* when the body cannot be read), and the outcome holds no scan result
C11_MultiscanRejectsNon2xx ==
    (spc = "done" /\ sResponse.kind = "error") =>
        /\ sOutcome.has_error
        /\ sOutcome.error = ApiErrorOf(sResponse.status,
                                IF sResponse.text_rejects THEN sResponse.statusText
                                ELSE sResponse.text)
        /\ ~sOutcome.has_scan_result
        /\ sOutcome.redactions = <<>>

(***************************************************************************)
(* More properties of redactSensitiveContent.                              *)
(***************************************************************************)
\* two half-open ranges overlap without being identical
Overlap(r1, r2) == r1 # r2 /\ r1[1] < r2[2] /\ r2[1] < r1[2]

\* C12: two matches whose ranges overlap without being identical are both
\* applied, each with a Redaction of its own.
C12_OverlappingBothApplied ==
    rpc = "returned" =>
        \A i, j \in 1..Len(Reported(rScan)) :
            (/\ HasBothOffsets(Reported(rScan)[i])
             /\ HasBothOffsets(Reported(rScan)[j])
             /\ Overlap(FlaggedRange(Reported(rScan)[i]),
                        FlaggedRange(Reported(rScan)[j]))) =>
                /\ Cardinality(RedactionsOfRange(FlaggedRange(Reported(rScan)[i]))) = 1
                /\ Cardinality(RedactionsOfRange(FlaggedRange(Reported(rScan)[j]))) = 1

\* C12, what the code does keep: the same when neither range starts at
\* offset 0
C12_OverlappingBothAppliedPastZero ==
    rpc = "returned" =>
        \A i, j \in 1..Len(Reported(rScan)) :
            (/\ HasBothOffsets(Reported(rScan)[i])
             /\ HasBothOffsets(Reported(rScan)[j])
             /\ FlaggedRange(Reported(rScan)[i])[1] # 0
             /\ FlaggedRange(Reported(rScan)[j])[1] # 0
             /\ Overlap(FlaggedRange(Reported(rScan)[i]),
                        FlaggedRange(Reported(rScan)[j]))) =>
                /\ Cardinality(RedactionsOfRange(FlaggedRange(Reported(rScan)[i]))) = 1
                /\ Cardinality(RedactionsOfRange(FlaggedRange(Reported(rScan)[j]))) = 1
                /\ Len(rOut.redactions) >= 2

\* C13: the replacements are applied in descending order of start offset,
\* and the redactions returned are in that order: no entry starts after the
\* entry before it.
C13_RedactionsDescending ==
    rpc = "returned" =>
        \A k \in 2..Len(rOut.redactions) :
            rOut.redactions[k].start <= rOut.redactions[k - 1].start

\* C13, what the code does keep: the order is descending when every match
\* the loop sees has a start offset the mapping of line 109 keeps
C13_DescendingWhenStartsKept ==
    (/\ rpc = "returned"
     /\ \A i \in 1..Len(rSorted) : rSorted[i].start # Undefined) =>
        \A k \in 2..Len(rOut.redactions) :
            rOut.redactions[k].start <= rOut.redactions[k - 1].start

(***************************************************************************)
(* More properties of scan.                                                *)
(***************************************************************************)
\* C14: a call of scan sends at most one request, which carries all the
\* documents of the call in one array with a bearer credential; when the
\* request fails the failure is returned and no other request is sent.
C14_OneRequestNoRetry ==
    /\ Len(sRequests) <= 1
    /\ spc \in {"awaiting", "done"} =>
        \/ /\ MultiscanRequest(sContent, sApiKey, Filename).threw
           /\ sRequests = <<>>
        \/ /\ ~MultiscanRequest(sContent, sApiKey, Filename).threw
           /\ Len(sRequests) = 1
           /\ sRequests[1].authorization = <<"Bearer", sApiKey>>
           /\ sRequests[1].body = buildDocuments(sContent, Filename).docs
    /\ (spc = "done" /\ sResponse.kind \in {"reject", "error", "garbage"}) =>
        /\ Len(sRequests) = 1
        /\ sOutcome.has_error
        /\ sOutcome.error = MultiscanResponse(sResponse).error

\* a call that sent several documents got a failure and stopped there
C14_Witness ==
    /\ spc = "done"
    /\ sResponse.kind = "reject"
    /\ Len(sRequests) = 1
    /\ Len(sRequests[1].body) = MaxItems
    /\ sOutcome.has_error

\* C15: in every outcome of scan, an error comes with an empty list of
\* redactions and with the content as given; no outcome has both redactions
\* and an error.
C15_ErrorExcludesRedactions ==
    spc = "done" =>
        /\ sOutcome.has_error =>
            /\ sOutcome.redactions = <<>>
            /\ sOutcome.content = ScanText
        /\ ~(sOutcome.redactions # <<>> /\ sOutcome.has_error)

\* an outcome with an error for a content that is not empty
C15_Witness ==
    /\ spc = "done"
    /\ sOutcome.has_error
    /\ sResponse.kind = "garbage"
    /\ sRedact
    /\ StrLen(ScanText) = MaxLen
    /\ sOutcome.content = ScanText

\* an outcome with redactions and no error
C15_WitnessRedacted ==
    /\ spc = "done"
    /\ ~sOutcome.has_error
    /\ sOutcome.redactions # <<>>

\* C16: with redact = false, scan returns the content as given, an empty
\* list of redactions and the aggregated scan result, however many matches
\* the detector reported.
C16_RedactFalseKeepsContent ==
    (spc = "done" /\ ~sRedact /\ sResponse.kind = "ok") =>
        /\ sOutcome.content = ScanText
        /\ sOutcome.redactions = <<>>
        /\ ~sOutcome.has_error
        /\ sOutcome.has_scan_result
        /\ sOutcome.scan_result = Aggregate(sResponse.results)

\* redaction was off and the detector reported matches in several documents
C16_Witness ==
    /\ spc = "done"
    /\ ~sRedact
    /\ sResponse.kind = "ok"
    /\ Len(sDocs) > 1
    /\ Len(Reported(sOutcome.scan_result)) > 1
    /\ sOutcome.content = ScanText

\* the policy breaks of the first n results one after the other
RECURSIVE BreaksInDocumentOrder(_, _)
BreaksInDocumentOrder(results, n) ==
    IF n = 0 THEN <<>>
    ELSE BreaksInDocumentOrder(results, n - 1)
         \o (IF results[n].has_breaks THEN results[n].policy_breaks ELSE <<>>)

\* C17: with results for several documents, the scan result scan redacts
\* with (and returns when redaction is off) holds the policy breaks of all
\* documents one after the other in document order, none dropped, merged
\* or de-duplicated.
C17_AggregateConcatenates ==
    (spc = "done" /\ sResponse.kind = "ok" /\ Len(sResponse.results) > 1) =>
        LET all == [has_breaks |-> TRUE,
                    policy_breaks |-> BreaksInDocumentOrder(sResponse.results,
                                                            Len(sResponse.results))]
        IN  /\ ~sRedact =>
                /\ sOutcome.has_scan_result
                /\ sOutcome.scan_result = all
            /\ sRedact =>
                \E sorted \in SortedMatches(all) :
                    /\ sOutcome.content =
                            redactSensitiveContent(ScanText, all, sorted).content
                    /\ sOutcome.redactions =
                            redactSensitiveContent(ScanText, all, sorted).redactions

\* two documents reported the same policy break and both copies are kept
C17_Witness ==
    /\ spc = "done"
    /\ ~sRedact
    /\ sResponse.kind = "ok"
    /\ Len(sResponse.results) > 1
    /\ Len(sResponse.results[1].policy_breaks) = 1
    /\ sResponse.results[2] = sResponse.results[1]
    /\ Len(sOutcome.scan_result.policy_breaks) >= 2
    /\ sOutcome.scan_result.policy_breaks[1] = sOutcome.scan_result.policy_breaks[2]

\* C18: buildDocuments returns one document with the filename and the
\* content as given when the content has at most MAX_DOC_SIZE bytes;
\* otherwise one document per chunk in the order of the chunks' indexes, the
\* i-th named <filename>.part<i> and holding the i-th chunk.
C18_DocumentsOfContent ==
    (spc \in {"awaiting", "done"} /\ sApiKey # "") =>
        /\ ByteLength(sContent) <= MAX_DOC_SIZE =>
            sDocs = <<[filename |-> Filename, part |-> Undefined,
                       document |-> sContent]>>
        /\ (/\ ByteLength(sContent) > MAX_DOC_SIZE
            /\ ~chunkJson(sContent).threw
            /\ Len(chunkJson(sContent).chunks) <= MAX_DOCS) =>
                LET chunks == chunkJson(sContent).chunks
                IN  /\ Len(sDocs) = Len(chunks)
                    /\ \A i \in 1..Len(chunks) :
                        /\ chunks[i].index = i - 1
                        /\ sDocs[i].filename = Filename
                        /\ sDocs[i].part = i - 1
                        /\ sDocs[i].document = chunks[i].chunk

\* an oversized content went out as MaxItems numbered documents
C18_Witness ==
    /\ spc = "awaiting"
    /\ ByteLength(sContent) > MAX_DOC_SIZE
    /\ Len(sDocs) = MaxItems
    /\ sDocs[MaxItems].part = MaxItems - 1
    /\ sDocs[1].part = 0

\* a content within the limit went out as one document
C18_WitnessSmall ==
    /\ spc = "awaiting"
    /\ ByteLength(sContent) = MaxLen
    /\ Len(sDocs) = 1
    /\ sDocs[1].document = sContent

(***************************************************************************)
(* More properties of the chunker.                                         *)
(***************************************************************************)
Primitives == {"string", "number", "boolean", "null"}

\* C19: chunkJson throws the unsupported-root error and returns no chunk
\* when the parsed root is a string, a number, a boolean or null, whatever
\* the size of the text.
C19_PrimitiveRootRejected ==
    (cpc # "start" /\ jsonString.root \in Primitives) =>
        /\ cpc = "threw"
        /\ chunked.threw
        /\ chunked.error = UnsupportedRoot
        /\ chunked.chunks = <<>>

\* a primitive within the limit was rejected
C19_Witness ==
    /\ cpc = "threw"
    /\ jsonString.root = "number"
    /\ ByteLength(jsonString) <= MAX_CHUNK_SIZE
    /\ chunked.error = UnsupportedRoot

\* a primitive beyond the limit was rejected
C19_WitnessLarge ==
    /\ cpc = "threw"
    /\ jsonString.root = "null"
    /\ ByteLength(jsonString) > MAX_CHUNK_SIZE
    /\ chunked.error = UnsupportedRoot

(***************************************************************************)
(* More properties of the gateway.                                         *)
(***************************************************************************)
\* the request is one the gateway is to refuse: no model, no array of
\* messages or an empty one, a model that is not among the supported models,
\* a message without role or content, or with a content that is no string
MustBeRefused(body) ==
    \/ body.model = ""
    \/ ~body.is_array
    \/ body.messages = <<>>
    \/ body.model # ClaudeSonnet
    \/ \E i \in 1..Len(body.messages) :
        \/ body.messages[i].role = ""
        \/ body.messages[i].kind # "string"

\* C20: a request that fails validation gets a 400 response, and neither
\* the detector nor the model is called for it.
C20_InvalidRequestCallsNothing ==
    (gBody.parses /\ MustBeRefused(gBody)) =>
        /\ gKeyFetches = 0
        /\ gDetectorCalls = 0
        /\ gModelCalls = 0
        /\ gpc = "done" => gResponse.statusCode = 400

\* C20, what the code does keep: the same for every request but those that
\* name a property objects inherit as their model
C20_RefusedRequestCallsNothing ==
    (gBody.parses /\ MustBeRefused(gBody) /\ gBody.model # "toString") =>
        /\ gKeyFetches = 0
        /\ gDetectorCalls = 0
        /\ gModelCalls = 0
        /\ gpc = "done" =>
            /\ gResponse.statusCode = 400
            /\ gResponse.code = Validate(gBody)

\* C21: for a valid request with N messages whose model call succeeds, the
\* detector is called N + 1 times and the API key is fetched N + 1 times.
C21_OneScanPerMessageAndResponse ==
    (gpc = "done" /\ ValidRequestAndModel /\ gResponse.statusCode = 200) =>
        /\ gDetectorCalls = Len(gBody.messages) + 1
        /\ gKeyFetches = Len(gBody.messages) + 1

\* C21, what the code does: the joined prompt is scanned as well, so the key
\* is fetched N + 2 times, and the detector is called once for every fetch
\* that succeeded
C21_OneScanMoreForThePrompt ==
    (gpc = "done" /\ ValidRequestAndModel /\ gResponse.statusCode = 200) =>
        /\ gKeyFetches = Len(gBody.messages) + 2
        /\ Len(gScans) = Len(gBody.messages) + 2
        /\ gDetectorCalls =
            Cardinality({k \in 1..Len(gScans) : gScans[k].kind # "ssm"})

\* the text of the i-th message as the request gave it
OriginalText(i) == Content(MaxLen)

\* C22: the model is invoked only after every message has been scanned (or
\* its scan has failed), and the prompt holds, for every message redactions
\* were applied to, the redacted text and not the text as given.
C22_PromptFromRedactedMessages ==
    gModelCalls > 0 =>
        /\ Len(gScans) >= Len(gBody.messages) + 1
        /\ Len(gPrompt) = Len(gBody.messages)
        /\ \A i \in 1..Len(gBody.messages) :
            /\ gScans[i + 1].step = "message"
            /\ gPrompt[i].text = gBody.messages[i].content
            /\ gScans[i + 1].applied > 0 =>
                /\ gPrompt[i].text # OriginalText(i)
                /\ Chars(gPrompt[i].text) # Chars(OriginalText(i))
                /\ \E k \in 1..Len(gPrompt[i].text) : gPrompt[i].text[k] = Marker[1]

\* the model was invoked with a prompt whose last message was redacted
C22_Witness ==
    /\ gModelCalls = 1
    /\ Len(gBody.messages) = MaxMsgs
    /\ gScans[MaxMsgs + 1].applied > 0
    /\ gPrompt[MaxMsgs].text # OriginalText(MaxMsgs)

\* the record of the scan of the model's response
ResponseScan == gScans[Len(gScans)]

\* the matches the scan of the model's response located in it
LocatedInResponse ==
    {k \in 1..Len(Reported(ResponseScan.result)) :
        HasBothOffsets(Reported(ResponseScan.result)[k])}

\* C23: the content returned is the redacted response whenever the scan of
\* the response applied a redaction, and the model's own text is returned
\* only when that scan failed or found nothing to redact.
C23_ResponseRedactedWhenFound ==
    (gpc = "done" /\ gResponse.statusCode = 200) =>
        /\ ResponseScan.step = "response"
        /\ ResponseScan.applied > 0 =>
            /\ Chars(gResponse.content) # Chars(ModelText)
            /\ \E k \in 1..Len(gResponse.content) : gResponse.content[k] = Marker[1]
        /\ gResponse.content = ModelText =>
            \/ ResponseScan.threw
            \/ ResponseScan.status # 200
            \/ LocatedInResponse = {}

\* C23, what the code does keep: the same when no match the scan located
\* starts at the first character of the response.
C23_ResponseRedactedPastZero ==
    (/\ gpc = "done"
     /\ gResponse.statusCode = 200
     /\ \A k \in LocatedInResponse :
            FlaggedRange(Reported(ResponseScan.result)[k])[1] > 0) =>
        /\ ResponseScan.step = "response"
        /\ ResponseScan.applied > 0 =>
            /\ Chars(gResponse.content) # Chars(ModelText)
            /\ \E k \in 1..Len(gResponse.content) : gResponse.content[k] = Marker[1]
        /\ gResponse.content = ModelText =>
            \/ ResponseScan.threw
            \/ ResponseScan.status # 200
            \/ LocatedInResponse = {}

\* a response redacted past its first character was returned
C23_WitnessPastZero ==
    /\ gpc = "done"
    /\ gResponse.statusCode = 200
    /\ ResponseScan.applied > 0
    /\ LocatedInResponse # {}
    /\ \A k \in LocatedInResponse :
            FlaggedRange(Reported(ResponseScan.result)[k])[1] > 0
    /\ gResponse.content # ModelText

\* C24: a call of scan whose detector call never completes still returns in
\* the end, with the content unscanned and the error beside it.
C24_PendingCallStillReturns ==
    (spc = "pending") ~>
        (/\ spc = "done"
         /\ sOutcome.has_error
         /\ sOutcome.content = ScanText)

\* C24 for the gateway: a request one of whose detector calls never completes
\* is still answered in the end, with a completion.
C24_PendingRequestStillAnswered ==
    (gpc = "pending") ~> (gpc = "done" /\ gResponse.statusCode = 200)

\* C24, what the code does keep: once the detector call has settled, by an
\* answer or by a failure, scan returns.
C24_SettledCallReturns ==
    (spc = "call") ~> (spc \in {"done", "pending"})

\* C25: every response of the fetch-file tool that carries file text comes
\* after a scan of that text that succeeded; text whose scan failed is not
\* delivered.
C25_UnscannedTextNotDelivered ==
    fReply.kind = "file" =>
        /\ fScans = 1
        /\ ~fScanned.has_error

\* C25, what the code does keep: file text is delivered only after scan was
\* called on it and has returned, and it is the content scan returned.
C25_TextOnlyAfterScanReturned ==
    fReply.kind = "file" =>
        /\ fpc = "done"
        /\ fScans = 1
        /\ fReply.text = fScanned.content

\* file text was delivered after a scan that succeeded
C25_WitnessScanned ==
    /\ fReply.kind = "file"
    /\ ~fScanned.has_error
    /\ fScanned.redactions # <<>>

\* what invocation p returns when it is the only one
Alone(p) ==
    ScanOutcome(cCalls[p].content, cCalls[p].apiKey, cCalls[p].redact, cResps[p])

C26_WitnessBoth ==
    /\ \A p \in Invocations : cpcs[p] = "done"
    /\ cLast = 1
    /\ cCalls[1].content # cCalls[2].content
    /\ cOuts[1].redactions # <<>>
    /\ cOuts[2].redactions # <<>>
    /\ cOuts[1] # cOuts[2]

\* every match the scan result reports has both offsets
AllLocated == \A k \in 1..Len(Reported(rScan)) : HasBothOffsets(Reported(rScan)[k])

\* the ranges the matches flag
FlaggedRanges == {FlaggedRange(Reported(rScan)[k]) : k \in 1..Len(Reported(rScan))}

\* the positions of the content some range covers
Covered == {i \in 0..(rLen - 1) : \E r \in FlaggedRanges : r[1] <= i /\ i < r[2]}

\* the characters of the original content the redacted content still holds
Surviving == {Chars(rOut.content)[k] : k \in 1..StrLen(rOut.content)} \cap 0..(rLen - 1)

\* C27: when every match has both offsets, inside the content, no character
\* at a position some flagged range covers is left in the redacted content,
\* whether the ranges overlap, nest or are shorter than the marker.
C27_NoFlaggedCharSurvives ==
    (rpc = "returned" /\ AllLocated /\ Reported(rScan) # <<>>) =>
        Covered \cap Surviving = {}

\* C27 for ranges that start past the first character: with ranges that
\* overlap the claim fails all the same.
C27_NoFlaggedCharSurvivesPastZero ==
    (/\ rpc = "returned"
     /\ AllLocated
     /\ Reported(rScan) # <<>>
     /\ \A r \in FlaggedRanges : r[1] > 0) =>
        Covered \cap Surviving = {}

\* C27, what the code does keep: the same when, besides, no two ranges
\* overlap.
C27_DisjointPastZeroNoneSurvives ==
    (/\ rpc = "returned"
     /\ AllLocated
     /\ Reported(rScan) # <<>>
     /\ \A r \in FlaggedRanges : r[1] > 0
     /\ \A r1, r2 \in FlaggedRanges : ~Overlap(r1, r2)) =>
        Covered \cap Surviving = {}

\* the matches are pairwise disjoint: no two of them share a position
PairwiseDisjoint ==
    \A j, k \in 1..Len(Reported(rScan)) :
        j # k => \/ FlaggedRange(Reported(rScan)[j])[2] <= FlaggedRange(Reported(rScan)[k])[1]
                 \/ FlaggedRange(Reported(rScan)[k])[2] <= FlaggedRange(Reported(rScan)[j])[1]

\* the characters of the content from position i on, every flagged range
\* replaced by one marker
RECURSIVE ReplacedFrom(_)
ReplacedFrom(i) ==
    IF i >= rLen THEN <<>>
    ELSE IF \E r \in FlaggedRanges : r[1] = i
    THEN MarkerChars \o ReplacedFrom((CHOOSE r \in FlaggedRanges : r[1] = i)[2])
    ELSE <<i>> \o ReplacedFrom(i + 1)

\* C28: for matches that are pairwise non-overlapping, the redacted content
\* is the original with each flagged range replaced by one marker and every
\* other character kept in place, in whatever order the matches are listed.
C28_DisjointRangesReplaced ==
    (rpc = "returned" /\ AllLocated /\ Reported(rScan) # <<>> /\ PairwiseDisjoint) =>
        /\ Chars(rOut.content) = ReplacedFrom(0)
        /\ Len(rOut.redactions) = Len(Reported(rScan))

\* C28, what the code does keep: the same when no range starts at the first
\* character of the content.
C28_DisjointRangesReplacedPastZero ==
    (/\ rpc = "returned"
     /\ AllLocated
     /\ Reported(rScan) # <<>>
     /\ PairwiseDisjoint
     /\ \A r \in FlaggedRanges : r[1] > 0) =>
        /\ Chars(rOut.content) = ReplacedFrom(0)
        /\ Len(rOut.redactions) = Len(Reported(rScan))

\* two disjoint ranges past the first character, the lower one listed first,
\* were both replaced
C28_WitnessPastZero ==
    /\ rpc = "returned"
    /\ AllLocated
    /\ PairwiseDisjoint
    /\ Len(Reported(rScan)) = 2
    /\ FlaggedRange(Reported(rScan)[1])[1] > 0
    /\ FlaggedRange(Reported(rScan)[1])[1] < FlaggedRange(Reported(rScan)[2])[1]
    /\ Len(rOut.redactions) = 2

\* the chunks chunkJson returned that hold no child
EmptyChunks == {i \in 1..Len(chunked.chunks) : Len(chunked.chunks[i].chunk.items) = 0}

\* C29: every chunk chunkJson returns for a root with children holds at least
\* one child of the root, also when the first child alone exceeds the limit.
C29_NoEmptyChunk ==
    (/\ cpc \in {"chunked", "done"}
     /\ ~chunked.threw
     /\ IsContainer(jsonString.root)
     /\ Len(jsonString.items) > 0) =>
        EmptyChunks = {}

\* C29, what the code does keep: no chunk of an array root is empty when the
\* first element fits a chunk of its own.
C29_NoEmptyChunkWhenFirstFits ==
    (/\ cpc \in {"chunked", "done"}
     /\ ~chunked.threw
     /\ jsonString.root = "array"
     /\ Len(jsonString.items) > 0
     /\ 2 + jsonString.items[1].size <= MAX_CHUNK_SIZE) =>
        EmptyChunks = {}

\* an array whose first element fits was split into several chunks
C29_WitnessFirstFits ==
    /\ cpc = "chunked"
    /\ jsonString.root = "array"
    /\ Len(jsonString.items) > 1
    /\ 2 + jsonString.items[1].size <= MAX_CHUNK_SIZE
    /\ Len(chunked.chunks) > 1
    /\ EmptyChunks = {}

\* the byte length of the chunk the loop is filling, were it serialized now
SerializedSize(kind, current) == ByteLength(JsonStringify([kind |-> kind, items |-> current]))

\* the step closes a chunk
ClosesChunk == Len(packing'.chunks) > Len(packing.chunks)

\* C30: while packing, the running estimate of the current chunk is 2 plus the
\* serialized sizes of its children plus one byte per child after the first,
\* the byte length of the chunk as serialized, for either kind of root, and a
\* chunk is closed only when the next child would really exceed the limit.
C30_EstimateIsSerializedSize ==
    cpc \in {"array", "object"} =>
        /\ packing.currentSize = 2 + SumSizes(packing.current)
                + (IF cpc = "object" THEN SumKeys(packing.current) ELSE 0)
                + Commas(packing.current)
        /\ packing.currentSize = SerializedSize(cpc, packing.current)

\* C30, its last part: a step that closes a chunk is one where the chunk with
\* the next child added would exceed the limit.
C30_ClosedOnlyWhenFull ==
    [][(cpc \in {"array", "object"} /\ rest # <<>> /\ ClosesChunk) =>
            SerializedSize(cpc, Append(packing.current, Head(rest))) > MAX_CHUNK_SIZE]_vars

\* C30, what the code does keep: for array roots the estimate is the byte
\* length of the chunk as serialized.
C30_EstimateOfArrays ==
    cpc = "array" =>
        /\ packing.currentSize = 2 + SumSizes(packing.current) + Commas(packing.current)
        /\ packing.currentSize = SerializedSize("array", packing.current)

\* C30, what the code does keep: for array roots a chunk is closed only when
\* the next element would exceed the limit.
C30_ArrayClosedOnlyWhenFull ==
    [][(cpc = "array" /\ rest # <<>> /\ ClosesChunk) =>
            SerializedSize("array", Append(packing.current, Head(rest))) > MAX_CHUNK_SIZE]_vars

\* the loop of chunkArray holds two elements after it closed a chunk
C30_WitnessArray ==
    /\ cpc = "array"
    /\ Len(packing.chunks) > 0
    /\ Len(packing.current) = 2
    /\ packing.currentSize = SerializedSize("array", packing.current)

\* C30 for object roots whose keys need no escaping and are not __proto__:
\* the estimate fails all the same.
C30_EstimateOfPlainObjects ==
    (/\ cpc = "object"
     /\ \A j \in 1..Len(jsonString.items) :
            jsonString.items[j].key \in {PlainKey, OtherKey}) =>
        packing.currentSize = SerializedSize("object", packing.current)

=============================================================================
